---- MODULE Spec2Model ----
(***************************************************************************)
(* A model of server.py: the TemplateEngine (loop, conditional and scalar  *)
(* stages over the template text), the ConverterService and the request    *)
(* handlers that keep the in-memory history.                               *)
(*                                                                         *)
(* Text is modelled character by character: a character is its Unicode     *)
(* code point, a Python str the sequence of its code points.  Where a text  *)
(* of the source is written out, the comment at the end of the line reads   *)
(* it back.                                                                 *)
(*                                                                         *)
(* A float is modelled bit for bit (IEEE 754 binary64, round to nearest,    *)
(* ties to even), its significand an integer of any size.                   *)
(***************************************************************************)
EXTENDS Integers, Sequences, FiniteSets, TLC

VARIABLES
    request_history,   \* RequestHandler.request_history (class attribute, shared)
    produced,          \* ghost: every entry ever appended to the history, in order
    template_file,     \* the file at TemplateEngine.template_path
    context,           \* the context mapping handed to the last render
    response,          \* outcome of the last handler / render call
    request,           \* the inputs of the last request
    threads            \* per-thread position of a handler (threaded dispatch)

vars == <<request_history, produced, template_file, context, response, request, threads>>

----------------------------------------------------------------------------
(* Python str helpers.                                                     *)

Min(S) == CHOOSE x \in S : \A y \in S : x <= y

Max(S) == CHOOSE x \in S : \A y \in S : x >= y

\* s[i:i+len(p)] == p
StartsWithAt(s, i, p) ==
    /\ i >= 1
    /\ i + Len(p) - 1 <= Len(s)
    /\ (p = <<>> \/ s[i] = p[1])
    /\ \A j \in 1..Len(p) : s[i + j - 1] = p[j]

\* s.find(p, from) with 1-based positions; 0 when p does not occur.
Find(s, p, from) ==
    LET hits == {i \in from..(Len(s) - Len(p) + 1) : StartsWithAt(s, i, p)}
    IN  IF hits = {} THEN 0 ELSE Min(hits)

\* s[from:] (1-based, inclusive)
Rest(s, from) == SubSeq(s, from, Len(s))

RECURSIVE StrReplace(_, _, _)
\* str.replace(old, new) for a non-empty old: leftmost, non-overlapping.
StrReplace(s, old, new) ==
    LET i == Find(s, old, 1)
    IN  IF i = 0 THEN s
        ELSE SubSeq(s, 1, i - 1) \o new \o StrReplace(Rest(s, i + Len(old)), old, new)

RECURSIVE CountOcc(_, _)
\* s.count(p): number of non-overlapping occurrences of p in s.
CountOcc(s, p) ==
    LET i == Find(s, p, 1)
    IN  IF i = 0 THEN 0 ELSE 1 + CountOcc(Rest(s, i + Len(p)), p)

Contains(s, p) == Find(s, p, 1) > 0

Digit(d) == 48 + d  \* "0" + d

RECURSIVE NatStr(_)
NatStr(n) == IF n < 10 THEN <<Digit(n)>> ELSE NatStr(n \div 10) \o <<Digit(n % 10)>>

\* str(n) for an int
IntStr(n) == IF n < 0 THEN <<45>> \o NatStr(-n) ELSE NatStr(n)  \* "-"

RECURSIVE ConcatRange(_, _, _)
\* ss[lo] \o ... \o ss[hi]
ConcatRange(ss, lo, hi) ==
    IF lo > hi THEN <<>>
    ELSE IF lo = hi THEN ss[lo]
    ELSE ConcatRange(ss, lo, (lo + hi) \div 2) \o ConcatRange(ss, (lo + hi) \div 2 + 1, hi)

\* "".join(ss)
Concat(ss) == ConcatRange(ss, 1, Len(ss))

\* ", ".join(ss)
JoinComma(ss) == Concat([i \in 1..Len(ss) |-> IF i = 1 THEN ss[i] ELSE <<44, 32>> \o ss[i]])  \* ", "

----------------------------------------------------------------------------
(* Natural numbers of any size: a sequence of limbs, least significant     *)
(* first, no leading zero limb (<<>> is 0).  They carry the significand    *)
(* of a float, which is wider than an integer of TLC.                      *)

LimbBits == 15

Limb == 32768

\* limb i of a, 0 beyond its length
At(a, i) == IF i <= Len(a) THEN a[i] ELSE 0

\* a without its leading zero limbs
BNorm(a) == SubSeq(a, 1, Max({0} \cup {i \in 1..Len(a) : a[i] # 0}))

RECURSIVE NNat(_, _)
\* the number n >= 0 in limbs of the base
NNat(base, n) == IF n = 0 THEN <<>> ELSE <<n % base>> \o NNat(base, n \div base)

\* limbs and a carry: the limbs of the low part, then those of the high part
Joined(low, high) == <<low \o high[1], high[2]>>

\* limbs and a carry as one number
Carried(base, r) == r[1] \o NNat(base, r[2])

RECURSIVE AddRange(_, _, _, _, _, _)
AddHigh(base, a, b, mid, hi, low) == Joined(low[1], AddRange(base, a, b, mid + 1, hi, low[2]))

\* <<limbs lo..hi of a + b + c, carry out>>
AddRange(base, a, b, lo, hi, c) ==
    IF lo > hi THEN <<<<>>, c>>
    ELSE IF lo = hi
         THEN <<<<(At(a, lo) + At(b, lo) + c) % base>>, (At(a, lo) + At(b, lo) + c) \div base>>
    ELSE AddHigh(base, a, b, (lo + hi) \div 2, hi,
                 AddRange(base, a, b, lo, (lo + hi) \div 2, c))

\* a + b
NAdd(base, a, b) ==
    IF a = <<>> THEN b
    ELSE IF b = <<>> THEN a
    ELSE Carried(base, AddRange(base, a, b, 1, IF Len(a) > Len(b) THEN Len(a) ELSE Len(b), 0))

RECURSIVE SubRange(_, _, _, _, _, _)
SubHigh(base, a, b, mid, hi, low) == Joined(low[1], SubRange(base, a, b, mid + 1, hi, low[2]))

\* <<limbs lo..hi of a - b - c, borrow out>>
SubRange(base, a, b, lo, hi, c) ==
    IF lo > hi THEN <<<<>>, c>>
    ELSE IF lo = hi
         THEN <<<<(a[lo] - At(b, lo) - c) % base>>, IF a[lo] - At(b, lo) - c < 0 THEN 1 ELSE 0>>
    ELSE SubHigh(base, a, b, (lo + hi) \div 2, hi,
                 SubRange(base, a, b, lo, (lo + hi) \div 2, c))

\* a - b, for a >= b
NSub(base, a, b) == IF b = <<>> THEN a ELSE BNorm(SubRange(base, a, b, 1, Len(a), 0)[1])

RECURSIVE MulRange(_, _, _, _, _, _)
MulHigh(base, a, k, mid, hi, low) == Joined(low[1], MulRange(base, a, k, mid + 1, hi, low[2]))

\* <<limbs lo..hi of a * k + c, carry out>>
MulRange(base, a, k, lo, hi, c) ==
    IF lo > hi THEN <<<<>>, c>>
    ELSE IF lo = hi THEN <<<<(a[lo] * k + c) % base>>, (a[lo] * k + c) \div base>>
    ELSE MulHigh(base, a, k, (lo + hi) \div 2, hi,
                 MulRange(base, a, k, lo, (lo + hi) \div 2, c))

\* a * k + c, for small k and c
NMulSmall(base, a, k, c) ==
    IF a = <<>> \/ k = 0 THEN NNat(base, c)
    ELSE Carried(base, MulRange(base, a, k, 1, Len(a), c))

\* a * base^n
NShift(a, n) == IF a = <<>> THEN <<>> ELSE [i \in 1..n |-> 0] \o a

RECURSIVE NMulRange(_, _, _, _, _)
\* a * (the limbs lo..hi of b)
NMulRange(base, a, b, lo, hi) ==
    IF lo > hi THEN <<>>
    ELSE IF lo = hi THEN NMulSmall(base, a, b[lo], 0)
    ELSE NAdd(base, NMulRange(base, a, b, lo, (lo + hi) \div 2),
              NShift(NMulRange(base, a, b, (lo + hi) \div 2 + 1, hi), (lo + hi) \div 2 + 1 - lo))

\* a * b
NMul(base, a, b) == IF a = <<>> \/ b = <<>> THEN <<>> ELSE NMulRange(base, a, b, 1, Len(b))

RECURSIVE DivRange(_, _, _, _, _, _)
DivJoined(low, high) == <<low[1] \o high[1], low[2]>>

DivLow(base, a, k, lo, mid, high) == DivJoined(DivRange(base, a, k, lo, mid, high[2]), high)

\* <<limbs lo..hi of the quotient, remainder>> of (r, then the limbs hi..lo of a) by
\* a small k > r
DivRange(base, a, k, lo, hi, r) ==
    IF lo > hi THEN <<<<>>, r>>
    ELSE IF lo = hi THEN <<<<(r * base + a[lo]) \div k>>, (r * base + a[lo]) % k>>
    ELSE DivLow(base, a, k, lo, (lo + hi) \div 2,
                DivRange(base, a, k, (lo + hi) \div 2 + 1, hi, r))

\* a \div k, for a small k > 0
NDivSmall(base, a, k) == IF a = <<>> THEN <<>> ELSE BNorm(DivRange(base, a, k, 1, Len(a), 0)[1])

Squared(base, a) == NMul(base, a, a)

RECURSIVE NPow(_, _, _)
\* k^n in limbs of the base, for a small k
NPow(base, k, n) ==
    IF n = 0 THEN <<1>>
    ELSE IF n % 2 = 1 THEN NMulSmall(base, NPow(base, k, n - 1), k, 0)
    ELSE Squared(base, NPow(base, k, n \div 2))

RECURSIVE ConvRange(_, _, _, _, _)
\* the number of the limbs lo..hi of a, which are of base `from`, in limbs of base `to`
ConvRange(from, to, a, lo, hi) ==
    IF lo > hi THEN <<>>
    ELSE IF lo = hi THEN NNat(to, a[lo])
    ELSE NAdd(to, ConvRange(from, to, a, lo, (lo + hi) \div 2),
              NMul(to, ConvRange(from, to, a, (lo + hi) \div 2 + 1, hi),
                   NPow(to, from, (lo + hi) \div 2 + 1 - lo)))

\* a, of base `from`, in limbs of base `to`
Conv(from, to, a) == ConvRange(from, to, a, 1, Len(a))

BNat(n) == NNat(Limb, n)
BAdd(a, b) == NAdd(Limb, a, b)
BSub(a, b) == NSub(Limb, a, b)
BMulSmall(a, k, c) == NMulSmall(Limb, a, k, c)
BMul(a, b) == NMul(Limb, a, b)
BDivSmall(a, k) == NDivSmall(Limb, a, k)
BPow10(k) == NPow(Limb, 10, k)

\* -1, 0, 1 as a < b, a = b, a > b
BCmpAt(a, b, diff) ==
    IF diff = {} THEN 0 ELSE IF a[Max(diff)] < b[Max(diff)] THEN -1 ELSE 1

BCmp(a, b) ==
    IF Len(a) # Len(b) THEN (IF Len(a) < Len(b) THEN -1 ELSE 1)
    ELSE BCmpAt(a, b, {i \in 1..Len(a) : a[i] # b[i]})

\* a * 2^k
BShl(a, k) == NShift(BMulSmall(a, 2^(k % LimbBits), 0), k \div LimbBits)

\* a \div 2^k
BShr(a, k) ==
    IF k \div LimbBits >= Len(a) THEN <<>>
    ELSE BDivSmall(SubSeq(a, k \div LimbBits + 1, Len(a)), 2^(k % LimbBits))

RECURSIVE BitLen(_)
\* the number of bits of n >= 0
BitLen(n) == IF n = 0 THEN 0 ELSE 1 + BitLen(n \div 2)

BBitLen(a) == IF a = <<>> THEN 0 ELSE LimbBits * (Len(a) - 1) + BitLen(a[Len(a)])

BOdd(a) == a # <<>> /\ a[1] % 2 = 1

\* the digits ds, which are numbers, the last one first, as a text
DigitText(ds) == [i \in 1..Len(ds) |-> Digit(ds[Len(ds) + 1 - i])]

\* the decimal digits of a, the first one first
BStr(a) == IF a = <<>> THEN <<48>> ELSE DigitText(Conv(Limb, 10, a))  \* "0"

\* the number of the decimal digits ds, the first one first
BOfDigits(ds) == Conv(10, Limb, BNorm([i \in 1..Len(ds) |-> ds[Len(ds) + 1 - i]]))

----------------------------------------------------------------------------
(* A Python float: an IEEE 754 binary64.  A finite one is m * 2^e with m   *)
(* odd (or m = 0, e = 0) and a sign, which a zero keeps; + - * / round     *)
(* the exact result to the nearest float, a tie to the even significand.   *)

MantBits == 53

MinExp == 0 - 1074

MaxBits == 1024

Fin(neg, m, e) == [kind |-> "fin", neg |-> neg, m |-> m, e |-> e]
Inf(neg)       == [kind |-> "inf", neg |-> neg, m |-> <<>>, e |-> 0]
NaN            == [kind |-> "nan", neg |-> FALSE, m |-> <<>>, e |-> 0]
Zero(neg)      == Fin(neg, <<>>, 0)

IsZero(x) == x.kind = "fin" /\ x.m = <<>>

RECURSIVE TrailingZeros(_)
\* the number of low zero bits of n > 0
TrailingZeros(n) == IF n % 2 = 1 THEN 0 ELSE 1 + TrailingZeros(n \div 2)

\* m * 2^e, m from its limb i on, which is its lowest above 0
DNormAt(neg, m, e, i) ==
    Fin(neg, BShr(SubSeq(m, i, Len(m)), TrailingZeros(m[i])),
        e + LimbBits * (i - 1) + TrailingZeros(m[i]))

\* m * 2^e with the low zero bits of m moved into e
DNorm(neg, m, e) ==
    IF m = <<>> THEN Zero(neg) ELSE DNormAt(neg, m, e, Min({i \in 1..Len(m) : m[i] # 0}))

\* m * 2^e as a float, or the infinity when it is beyond the largest float
DFit(neg, m, e) ==
    IF BBitLen(m) + e > MaxBits THEN Inf(neg) ELSE DNorm(neg, m, e)

\* q cut by its low `drop` bits, rounded to nearest, a tie to even; sticky: the
\* number rounded is above q by less than 1
DCut(neg, q, sticky, e, drop, m0) ==
    LET c  == BCmp(BSub(q, BShl(m0, drop)), BShl(<<1>>, drop - 1))
        up == c > 0 \/ (c = 0 /\ (sticky \/ BOdd(m0)))
    IN  DFit(neg, IF up THEN BMulSmall(m0, 1, 1) ELSE m0, e + drop)

\* the float nearest to (q + f) * 2^e, where 0 <= f < 1 and f > 0 iff sticky
DRoundTo(neg, q, sticky, e, lsb) ==
    IF lsb <= e THEN DFit(neg, q, e)
    ELSE DCut(neg, q, sticky, e, lsb - e, BShr(q, lsb - e))

DRound(neg, q, sticky, e) ==
    IF q = <<>> THEN Zero(neg)
    ELSE DRoundTo(neg, q, sticky, e,
                  IF e + BBitLen(q) - MantBits > MinExp
                  THEN e + BBitLen(q) - MantBits ELSE MinExp)

\* The quotient of a division is made of 4 digits of 14 bits.
DigitBits == 14

QuotDigits == 4

RECURSIVE QuotDigit(_, _, _, _)
\* the largest g in lo..hi with g * d <= r
QuotDigit(r, d, lo, hi) ==
    IF lo >= hi THEN lo
    ELSE IF BCmp(BMulSmall(d, (lo + hi + 1) \div 2, 0), r) <= 0
         THEN QuotDigit(r, d, (lo + hi + 1) \div 2, hi)
    ELSE QuotDigit(r, d, lo, (lo + hi + 1) \div 2 - 1)

\* a < 2^31 as an integer
BInt(a) == At(a, 1) + Limb * At(a, 2) + Limb * Limb * At(a, 3)

\* The bits of d below its leading 16
LowBits(d) == IF BBitLen(d) > 16 THEN BBitLen(d) - 16 ELSE 0

\* The largest g with g * d <= r, for r < d * 2^DigitBits: between the quotients of
\* the leading bits of r by those of d, taken from above and from below.
QuotBetween(r, d, rt, dt) ==
    QuotDigit(r, d, rt \div (dt + 1),
              IF (rt + 1) \div dt > 2^DigitBits - 1 THEN 2^DigitBits - 1 ELSE (rt + 1) \div dt)

QuotOf(r, d) == QuotBetween(r, d, BInt(BShr(r, LowBits(d))), BInt(BShr(d, LowBits(d))))

RECURSIVE QuotSteps(_, _, _, _)
QuotStep(r, d, q, n, g) ==
    QuotSteps(BSub(r, BMulSmall(d, g, 0)), d, BMulSmall(q, 2^DigitBits, g), n - 1)

\* n more digits of the quotient q of r / d (r < d): <<quotient, remainder>>
QuotSteps(r, d, q, n) ==
    IF n = 0 THEN <<q, r>>
    ELSE IF r = <<>> THEN <<BShl(q, n * DigitBits), r>>
    ELSE QuotStep(BShl(r, DigitBits), d, q, n, QuotOf(BShl(r, DigitBits), d))

RoundQuot(neg, qr, e) == DRound(neg, qr[1], qr[2] # <<>>, e)

RoundScaled(neg, a, d, e, t) ==
    RoundQuot(neg,
              IF t >= 0 THEN QuotSteps(a, BShl(d, t), <<>>, QuotDigits)
              ELSE QuotSteps(BShl(a, 0 - t), d, <<>>, QuotDigits),
              e + t - QuotDigits * DigitBits)

\* the float nearest to (a / d) * 2^e, for d > 0
RoundRat(neg, a, d, e) ==
    IF a = <<>> THEN Zero(neg)
    ELSE RoundScaled(neg, a, d, e, BBitLen(a) - BBitLen(d) + 1)

\* float(n) for an int n
DInt(n) == DRound(n < 0, BNat(IF n < 0 THEN 0 - n ELSE n), FALSE, 0)

\* -x
DNeg(x) == IF x.kind = "nan" THEN x ELSE [x EXCEPT !.neg = ~x.neg]

\* x * y
DMul(x, y) ==
    IF x.kind = "nan" \/ y.kind = "nan" THEN NaN
    ELSE IF x.kind = "inf" \/ y.kind = "inf"
         THEN (IF IsZero(x) \/ IsZero(y) THEN NaN ELSE Inf(x.neg # y.neg))
    ELSE DRound(x.neg # y.neg, BMul(x.m, y.m), FALSE, x.e + y.e)

\* x / y for y # 0 (a zero divisor raises ZeroDivisionError)
DDiv(x, y) ==
    IF x.kind = "nan" \/ y.kind = "nan" THEN NaN
    ELSE IF x.kind = "inf" THEN (IF y.kind = "inf" THEN NaN ELSE Inf(x.neg # y.neg))
    ELSE IF y.kind = "inf" THEN Zero(x.neg # y.neg)
    ELSE RoundRat(x.neg # y.neg, x.m, y.m, x.e - y.e)

\* x + y for finite x, y # 0, as a * 2^em and b * 2^em
DAddAligned(x, y, a, b, em) ==
    IF x.neg = y.neg THEN DRound(x.neg, BAdd(a, b), FALSE, em)
    ELSE IF BCmp(a, b) = 0 THEN Zero(FALSE)
    ELSE IF BCmp(a, b) > 0 THEN DRound(x.neg, BSub(a, b), FALSE, em)
    ELSE DRound(y.neg, BSub(b, a), FALSE, em)

\* x + y
DAdd(x, y) ==
    IF x.kind = "nan" \/ y.kind = "nan" THEN NaN
    ELSE IF x.kind = "inf" THEN (IF y.kind = "inf" /\ y.neg # x.neg THEN NaN ELSE x)
    ELSE IF y.kind = "inf" THEN y
    ELSE IF IsZero(x) /\ IsZero(y) THEN Zero(x.neg /\ y.neg)
    ELSE IF IsZero(x) THEN y
    ELSE IF IsZero(y) THEN x
    ELSE IF x.e <= y.e THEN DAddAligned(x, y, x.m, BShl(y.m, y.e - x.e), x.e)
    ELSE DAddAligned(x, y, BShl(x.m, x.e - y.e), y.m, y.e)

\* x - y
DSub(x, y) == DAdd(x, DNeg(y))

----------------------------------------------------------------------------
(* float(text)                                                             *)

RECURSIVE RangeAt(_, _, _, _)
\* The place among rs[lo..hi] of the run that holds c, 0 when none does: rs is a
\* sequence of runs <<first, last>> of code points in order.
RangeAt(rs, c, lo, hi) ==
    IF lo > hi THEN 0
    ELSE LET mid == (lo + hi) \div 2
         IN  IF c < rs[mid][1] THEN RangeAt(rs, c, lo, mid - 1)
             ELSE IF c > rs[mid][2] THEN RangeAt(rs, c, mid + 1, hi)
             ELSE mid

InRanges(rs, c) == RangeAt(rs, c, 1, Len(rs)) # 0

\* The decimal digits of Unicode (category Nd), as runs <<first, last>> of code
\* points in order: each run is 0..9 once or several times over.
DecimalRanges ==
    <<
    <<48, 57>>, <<1632, 1641>>, <<1776, 1785>>, <<1984, 1993>>, <<2406, 2415>>, <<2534, 2543>>,
    <<2662, 2671>>, <<2790, 2799>>, <<2918, 2927>>, <<3046, 3055>>, <<3174, 3183>>,
    <<3302, 3311>>, <<3430, 3439>>, <<3558, 3567>>, <<3664, 3673>>, <<3792, 3801>>,
    <<3872, 3881>>, <<4160, 4169>>, <<4240, 4249>>, <<6112, 6121>>, <<6160, 6169>>,
    <<6470, 6479>>, <<6608, 6617>>, <<6784, 6793>>, <<6800, 6809>>, <<6992, 7001>>,
    <<7088, 7097>>, <<7232, 7241>>, <<7248, 7257>>, <<42528, 42537>>, <<43216, 43225>>,
    <<43264, 43273>>, <<43472, 43481>>, <<43504, 43513>>, <<43600, 43609>>, <<44016, 44025>>,
    <<65296, 65305>>, <<66720, 66729>>, <<68912, 68921>>, <<69734, 69743>>, <<69872, 69881>>,
    <<69942, 69951>>, <<70096, 70105>>, <<70384, 70393>>, <<70736, 70745>>, <<70864, 70873>>,
    <<71248, 71257>>, <<71360, 71369>>, <<71472, 71481>>, <<71904, 71913>>, <<72016, 72025>>,
    <<72784, 72793>>, <<73040, 73049>>, <<73120, 73129>>, <<92768, 92777>>, <<92864, 92873>>,
    <<93008, 93017>>, <<120782, 120831>>, <<123200, 123209>>, <<123632, 123641>>,
    <<125264, 125273>>, <<130032, 130041>>
    >>

IsDigitChar(c) == InRanges(DecimalRanges, c)

\* the value of a decimal digit
DigitVal(c) == (c - DecimalRanges[RangeAt(DecimalRanges, c, 1, Len(DecimalRanges))][1]) % 10

\* The white space float() strips: that of ASCII (\t \n \v \f \r and the blank)
\* and the spaces of Unicode from U+0085 on.
SpaceChars ==
    {9, 10, 11, 12, 13, 32, 133, 160, 5760} \cup 8192..8202 \cup {8232, 8233, 8239, 8287, 12288}

StripTo(s, kept) == IF kept = {} THEN <<>> ELSE SubSeq(s, Min(kept), Max(kept))

\* the text without the white space at its ends
Strip(s) == StripTo(s, {i \in 1..Len(s) : s[i] \notin SpaceChars})

\* c in lower case, for the letters of inf, infinity and nan
LowerChar(c) ==
    CASE c = 73 -> 105 [] c = 78 -> 110 [] c = 70 -> 102 [] c = 84 -> 116  \* "I" "i" "N" "n" "F" "f" "T" "t"
      [] c = 89 -> 121 [] c = 65 -> 97 [] OTHER -> c  \* "Y" "y" "A" "a"

Lower(s) == [i \in 1..Len(s) |-> LowerChar(s[i])]

IsDigitAt(s, i) == i <= Len(s) /\ IsDigitChar(s[i])

\* s[k] goes on a digit part that starts at i < k: a digit, or an underscore
\* between two digits
InDigitPart(s, i, k) ==
    IsDigitAt(s, k) \/ (k <= Len(s) /\ s[k] = 95 /\ IsDigitAt(s, k - 1) /\ IsDigitAt(s, k + 1))  \* "_"

\* The position after the digit part that starts at i; i when none starts there.
DigitPart(s, i) ==
    IF IsDigitAt(s, i) THEN Min({k \in (i + 1)..(Len(s) + 1) : ~InDigitPart(s, i, k)}) ELSE i

NotUnderscore(c) == c # 95  \* "_"

DigitValues(cs) == [k \in 1..Len(cs) |-> DigitVal(cs[k])]

\* The digits of s[from..to-1], underscores dropped, as numbers
DigitsOf(s, from, to) == DigitValues(SelectSeq(SubSeq(s, from, to - 1), NotUnderscore))

\* The number of zeros ds starts with
LeadingZeros(ds) == Min({i \in 1..(Len(ds) + 1) : i > Len(ds) \/ ds[i] # 0}) - 1

\* The limits of the parser of float(), which are MAX_DIGITS and MAX_ABS_EXP of
\* its source: a number may have MaxDigits digits after its leading zeros, and
\* as many in its fraction; an exponent of more than MaxExpDigits digits, its
\* leading zeros apart, is read as ExpCap, whatever its digits.
MaxDigits == 1000000000

MaxExpDigits == 9

ExpCap == 1100000000

\* The exponent float() reads from the digits ds: the number they write when at
\* most MaxExpDigits of them follow the leading zeros (a number below Limb^3),
\* and ExpCap otherwise.
ExpOf(ds) ==
    IF Len(ds) - LeadingZeros(ds) > MaxExpDigits THEN ExpCap
    ELSE LET b == BOfDigits(SubSeq(ds, LeadingZeros(ds) + 1, Len(ds)))
         IN  At(b, 1) + Limb * At(b, 2) + Limb * Limb * At(b, 3)

\* Decimal exponents of the largest and the smallest float, with a margin.
MaxDecExp == 310

MinDecExp == 0 - 330

\* The float nearest to c * 10^k
NearestFloat(neg, c, k) ==
    IF k >= 0 THEN DRound(neg, BMul(c, BPow10(k)), FALSE, 0)
    ELSE RoundRat(neg, c, BPow10(0 - k), 0)

\* The float nearest to 0.d1d2... * 10^mag, ds the digits d1 d2 ... with d1 # 0:
\* the infinity above the range of the floats, zero below it.
DecimalToFloat(neg, ds, mag) ==
    IF ds = <<>> THEN Zero(neg)
    ELSE IF mag > MaxDecExp THEN Inf(neg)
    ELSE IF mag < MinDecExp THEN Zero(neg)
    ELSE NearestFloat(neg, BOfDigits(ds), mag - Len(ds))

NotAFloat == [ok |-> FALSE, val |-> NaN]

\* The number with the integer part s[p0..p1-1], the fraction s[p2..p3-1] and the
\* exponent s[p5..p6-1] (negative with eneg), which ends the text at p6; no
\* number, when it has more than MaxDigits digits after its leading zeros, or
\* more than MaxDigits digits in its fraction.
ParseNumber(neg, s, p0, p1, p2, p3, eneg, p5, p6) ==
    LET ds  == DigitsOf(s, p0, p1) \o DigitsOf(s, p2, p3)
        lz  == LeadingZeros(ds)
        ex  == ExpOf(DigitsOf(s, p5, p6))
        mag == Len(DigitsOf(s, p0, p1)) - lz + (IF eneg THEN 0 - ex ELSE ex)
    IN  IF Len(ds) - lz > MaxDigits \/ Len(DigitsOf(s, p2, p3)) > MaxDigits THEN NotAFloat
        ELSE [ok |-> TRUE, val |-> DecimalToFloat(neg, SubSeq(ds, lz + 1, Len(ds)), mag)]

\* The exponent, if any, from p3 on: e or E, a sign, a digit part.
ParseExponent(neg, s, p0, p1, p2, p3) ==
    IF p3 > Len(s) THEN ParseNumber(neg, s, p0, p1, p2, p3, FALSE, p3, p3)
    ELSE IF s[p3] \notin {101, 69} THEN NotAFloat  \* "eE"
    ELSE LET signed == p3 + 1 <= Len(s) /\ s[p3 + 1] \in {43, 45}  \* "+-"
             p5     == IF signed THEN p3 + 2 ELSE p3 + 1
             p6     == DigitPart(s, p5)
         IN  IF p6 = p5 \/ p6 <= Len(s) THEN NotAFloat
             ELSE ParseNumber(neg, s, p0, p1, p2, p3, signed /\ s[p3 + 1] = 45, p5, p6)  \* "-"

\* The fraction, if any, from p1 on: a point and a digit part, one of the integer
\* part and the fraction having a digit.
ParseFraction(neg, s, p0, p1) ==
    IF p1 <= Len(s) /\ s[p1] = 46  \* "."
    THEN (IF p1 = p0 /\ DigitPart(s, p1 + 1) = p1 + 1 THEN NotAFloat
          ELSE ParseExponent(neg, s, p0, p1, p1 + 1, DigitPart(s, p1 + 1)))
    ELSE IF p1 = p0 THEN NotAFloat
    ELSE ParseExponent(neg, s, p0, p1, p1, p1)

\* The text after the sign: inf, infinity or nan in any case, or a number.
ParseUnsigned(neg, s) ==
    IF Lower(s) \in {<<105,110,102>>, <<105,110,102,105,110,105,116,121>>}  \* "inf" "infinity"
    THEN [ok |-> TRUE, val |-> Inf(neg)]
    ELSE IF Lower(s) = <<110,97,110>> THEN [ok |-> TRUE, val |-> NaN]  \* "nan"
    ELSE ParseFraction(neg, s, 1, DigitPart(s, 1))

ParseSigned(s) ==
    IF s # <<>> /\ Head(s) \in {43, 45} THEN ParseUnsigned(Head(s) = 45, Tail(s))  \* "+-" "-"
    ELSE ParseUnsigned(FALSE, s)

\* float(text): [ok |-> FALSE] is ValueError.
ParseFloat(text) == ParseSigned(Strip(text))

\* A float literal of the source
FloatLiteral(text) == ParseFloat(text).val

----------------------------------------------------------------------------
(* f"{res:.4f}".rstrip('0').rstrip('.')                                    *)

RECURSIVE RStripZeros(_)
\* str.rstrip('0')
RStripZeros(s) ==
    IF s # <<>> /\ s[Len(s)] = 48 THEN RStripZeros(SubSeq(s, 1, Len(s) - 1)) ELSE s  \* "0"

\* str.rstrip('.')
RECURSIVE RStripPoints(_)
RStripPoints(s) ==
    IF s # <<>> /\ s[Len(s)] = 46 THEN RStripPoints(SubSeq(s, 1, Len(s) - 1)) ELSE s  \* "."

Decimals == 4

\* ds with zeros in front up to n digits
ZeroPadded(ds, n) == IF Len(ds) >= n THEN ds ELSE [i \in 1..(n - Len(ds)) |-> 48] \o ds  \* "0"

\* ds with a point before its last k digits
PointAt(ds, k) == SubSeq(ds, 1, Len(ds) - k) \o <<46>> \o SubSeq(ds, Len(ds) - k + 1, Len(ds))  \* "."

\* The digits ds of a number as those of its 10^k-th part: a point before the last
\* k digits, and a digit at least before the point.
PointBefore(ds, k) == PointAt(ZeroPadded(ds, k + 1), k)

\* p / 2^k rounded to an integer, a tie to even; q is p \div 2^k
HalfEven(p, k, q) ==
    LET c == BCmp(BSub(p, BShl(q, k)), BShl(<<1>>, k - 1))
    IN  IF c > 0 \/ (c = 0 /\ BOdd(q)) THEN BMulSmall(q, 1, 1) ELSE q

\* |x| * 10^Decimals rounded to an integer, for a finite x
Scaled(x) ==
    IF x.e >= 0 THEN BShl(BMul(x.m, BPow10(Decimals)), x.e)
    ELSE HalfEven(BMul(x.m, BPow10(Decimals)), 0 - x.e,
                  BShr(BMul(x.m, BPow10(Decimals)), 0 - x.e))

\* f"{res:.4f}": the float rounded to 4 decimals (the exact value of the float, a
\* tie to the even digit), sign kept; inf, -inf, nan.
Fixed4(x) ==
    IF x.kind = "nan" THEN <<110,97,110>>  \* "nan"
    ELSE (IF x.neg THEN <<45>> ELSE <<>>)  \* "-"
         \o (IF x.kind = "inf" THEN <<105,110,102>>  \* "inf"
             ELSE PointBefore(BStr(Scaled(x)), Decimals))

\* f"{res:.4f}".rstrip('0').rstrip('.')
FormatResult(x) == RStripPoints(RStripZeros(Fixed4(x)))

----------------------------------------------------------------------------
(* repr(x) of a float, which is str(x): the shortest decimal that float()  *)
(* reads back as x, the nearest to x of that length.                       *)

Abs(x) == [x EXCEPT !.neg = FALSE]

\* |x| * 10^s as <<numerator, denominator>>, for a finite x
Scaled10(x, s) ==
    <<BShl(BMul(x.m, BPow10(IF s > 0 THEN s ELSE 0)), IF x.e > 0 THEN x.e ELSE 0),
      BShl(BPow10(IF s < 0 THEN 0 - s ELSE 0), IF x.e < 0 THEN 0 - x.e ELSE 0)>>

\* |x| >= 10^k
AtLeast1(f) == BCmp(f[1], f[2]) >= 0

AtLeastPow10(x, k) == AtLeast1(Scaled10(x, 0 - k))

\* The k with 10^(k-1) <= |x| < 10^k, for a finite x # 0; it is near log10(2) times
\* the number of bits of x.
DecimalPoint(x) ==
    CHOOSE k \in (((BBitLen(x.m) + x.e - 1) * 30103) \div 100000 - 2)
                 ..(((BBitLen(x.m) + x.e - 1) * 30103) \div 100000 + 2) :
        AtLeastPow10(x, k - 1) /\ ~AtLeastPow10(x, k)

\* the integer part of f[1] / f[2], which is below 2^(5 * DigitBits)
Floor(f) == QuotSteps(f[1], BShl(f[2], 5 * DigitBits), <<>>, 5)[1]

\* f[1] / f[2], of integer part lo, is nearer to lo + 1 than to lo (or as near, lo odd)
NearerAbove(f, lo, c) == c > 0 \/ (c = 0 /\ BOdd(lo))

RoundsUp(f, lo) ==
    NearerAbove(f, lo, BCmp(BMulSmall(BSub(f[1], BMul(lo, f[2])), 2, 0), f[2]))

\* float(c * 10^-s) == x
RoundTrips(x, c, s) == NearestFloat(FALSE, c, 0 - s) = Abs(x)

RECURSIVE ShortestFrom(_, _, _)
\* With the integers below (lo) and above |x| * 10^s: the nearer if it reads back
\* as x or 17 digits are reached, else the other if it does, else one digit more.
ShortestOf(x, decpt, n, near, other) ==
    IF n >= 17 \/ RoundTrips(x, near, n - decpt) THEN <<near, n - decpt>>
    ELSE IF RoundTrips(x, other, n - decpt) THEN <<other, n - decpt>>
    ELSE ShortestFrom(x, decpt, n + 1)

ShortestAt(x, decpt, n, f, lo) ==
    IF RoundsUp(f, lo) THEN ShortestOf(x, decpt, n, BMulSmall(lo, 1, 1), lo)
    ELSE ShortestOf(x, decpt, n, lo, BMulSmall(lo, 1, 1))

ShortestFor(x, decpt, n, f) == ShortestAt(x, decpt, n, f, Floor(f))

\* <<c, s>>: c * 10^-s is the shortest decimal of n digits or more that reads back
\* as x
ShortestFrom(x, decpt, n) == ShortestFor(x, decpt, n, Scaled10(x, n - decpt))

\* n zeros
Zeros(n) == [i \in 1..n |-> 48]  \* "0"

\* 0.d1d2... * 10^decpt as repr writes it: with an exponent when decpt is below -3
\* or above 16, else with a point and a digit at least on each side of it
ReprText(ds, decpt) ==
    IF decpt <= 0 - 4 \/ decpt > 16
    THEN <<ds[1]>> \o (IF Len(ds) > 1 THEN <<46>> \o Tail(ds) ELSE <<>>) \o <<101>>  \* "." "e"
         \o (IF decpt - 1 < 0 THEN <<45>> \o ZeroPadded(NatStr(1 - decpt), 2)  \* "-"
             ELSE <<43>> \o ZeroPadded(NatStr(decpt - 1), 2))  \* "+"
    ELSE IF decpt <= 0 THEN <<48, 46>> \o Zeros(0 - decpt) \o ds  \* "0."
    ELSE IF decpt >= Len(ds) THEN ds \o Zeros(decpt - Len(ds)) \o <<46, 48>>  \* ".0"
    ELSE PointAt(ds, Len(ds) - decpt)

ReprOf(ds, s) == ReprText(RStripZeros(ds), Len(ds) - s)

ReprDigits(cs) == ReprOf(BStr(cs[1]), cs[2])

\* repr(x)
FloatRepr(x) ==
    IF x.kind = "nan" THEN <<110,97,110>>  \* "nan"
    ELSE (IF x.neg THEN <<45>> ELSE <<>>)  \* "-"
         \o (IF x.kind = "inf" THEN <<105,110,102>>  \* "inf"
             ELSE IF IsZero(x) THEN <<48, 46, 48>>  \* "0.0"
             ELSE ReprDigits(ShortestFrom(x, DecimalPoint(x), 1)))

----------------------------------------------------------------------------
(* Python values held in a context.  Every value is a record of the same   *)
(* shape; `type` says which field carries it.  The items of a list are      *)
(* dicts.                                                                   *)

PStr(s)    == [type |-> "str",   str |-> s,    num |-> 0, float |-> Zero(FALSE), items |-> <<>>]
PInt(n)    == [type |-> "int",   str |-> <<>>, num |-> n, float |-> Zero(FALSE), items |-> <<>>]
PFloat(x)  == [type |-> "float", str |-> <<>>, num |-> 0, float |-> x,           items |-> <<>>]
PBool(b)   == [type |-> "bool",  str |-> <<>>, num |-> IF b THEN 1 ELSE 0,
               float |-> Zero(FALSE), items |-> <<>>]
PList(xs)  == [type |-> "list",  str |-> <<>>, num |-> 0, float |-> Zero(FALSE), items |-> xs]
PNone      == [type |-> "none",  str |-> <<>>, num |-> 0, float |-> Zero(FALSE), items |-> <<>>]

\* The printable characters (str.isprintable), as runs <<first, last>> of code
\* points in order.
PrintableRanges ==
    <<
    <<32, 126>>, <<161, 172>>, <<174, 887>>, <<890, 895>>, <<900, 906>>, <<908, 908>>,
    <<910, 929>>, <<931, 1327>>, <<1329, 1366>>, <<1369, 1418>>, <<1421, 1423>>,
    <<1425, 1479>>, <<1488, 1514>>, <<1519, 1524>>, <<1542, 1563>>, <<1565, 1756>>,
    <<1758, 1805>>, <<1808, 1866>>, <<1869, 1969>>, <<1984, 2042>>, <<2045, 2093>>,
    <<2096, 2110>>, <<2112, 2139>>, <<2142, 2142>>, <<2144, 2154>>, <<2160, 2190>>,
    <<2200, 2273>>, <<2275, 2435>>, <<2437, 2444>>, <<2447, 2448>>, <<2451, 2472>>,
    <<2474, 2480>>, <<2482, 2482>>, <<2486, 2489>>, <<2492, 2500>>, <<2503, 2504>>,
    <<2507, 2510>>, <<2519, 2519>>, <<2524, 2525>>, <<2527, 2531>>, <<2534, 2558>>,
    <<2561, 2563>>, <<2565, 2570>>, <<2575, 2576>>, <<2579, 2600>>, <<2602, 2608>>,
    <<2610, 2611>>, <<2613, 2614>>, <<2616, 2617>>, <<2620, 2620>>, <<2622, 2626>>,
    <<2631, 2632>>, <<2635, 2637>>, <<2641, 2641>>, <<2649, 2652>>, <<2654, 2654>>,
    <<2662, 2678>>, <<2689, 2691>>, <<2693, 2701>>, <<2703, 2705>>, <<2707, 2728>>,
    <<2730, 2736>>, <<2738, 2739>>, <<2741, 2745>>, <<2748, 2757>>, <<2759, 2761>>,
    <<2763, 2765>>, <<2768, 2768>>, <<2784, 2787>>, <<2790, 2801>>, <<2809, 2815>>,
    <<2817, 2819>>, <<2821, 2828>>, <<2831, 2832>>, <<2835, 2856>>, <<2858, 2864>>,
    <<2866, 2867>>, <<2869, 2873>>, <<2876, 2884>>, <<2887, 2888>>, <<2891, 2893>>,
    <<2901, 2903>>, <<2908, 2909>>, <<2911, 2915>>, <<2918, 2935>>, <<2946, 2947>>,
    <<2949, 2954>>, <<2958, 2960>>, <<2962, 2965>>, <<2969, 2970>>, <<2972, 2972>>,
    <<2974, 2975>>, <<2979, 2980>>, <<2984, 2986>>, <<2990, 3001>>, <<3006, 3010>>,
    <<3014, 3016>>, <<3018, 3021>>, <<3024, 3024>>, <<3031, 3031>>, <<3046, 3066>>,
    <<3072, 3084>>, <<3086, 3088>>, <<3090, 3112>>, <<3114, 3129>>, <<3132, 3140>>,
    <<3142, 3144>>, <<3146, 3149>>, <<3157, 3158>>, <<3160, 3162>>, <<3165, 3165>>,
    <<3168, 3171>>, <<3174, 3183>>, <<3191, 3212>>, <<3214, 3216>>, <<3218, 3240>>,
    <<3242, 3251>>, <<3253, 3257>>, <<3260, 3268>>, <<3270, 3272>>, <<3274, 3277>>,
    <<3285, 3286>>, <<3293, 3294>>, <<3296, 3299>>, <<3302, 3311>>, <<3313, 3314>>,
    <<3328, 3340>>, <<3342, 3344>>, <<3346, 3396>>, <<3398, 3400>>, <<3402, 3407>>,
    <<3412, 3427>>, <<3430, 3455>>, <<3457, 3459>>, <<3461, 3478>>, <<3482, 3505>>,
    <<3507, 3515>>, <<3517, 3517>>, <<3520, 3526>>, <<3530, 3530>>, <<3535, 3540>>,
    <<3542, 3542>>, <<3544, 3551>>, <<3558, 3567>>, <<3570, 3572>>, <<3585, 3642>>,
    <<3647, 3675>>, <<3713, 3714>>, <<3716, 3716>>, <<3718, 3722>>, <<3724, 3747>>,
    <<3749, 3749>>, <<3751, 3773>>, <<3776, 3780>>, <<3782, 3782>>, <<3784, 3789>>,
    <<3792, 3801>>, <<3804, 3807>>, <<3840, 3911>>, <<3913, 3948>>, <<3953, 3991>>,
    <<3993, 4028>>, <<4030, 4044>>, <<4046, 4058>>, <<4096, 4293>>, <<4295, 4295>>,
    <<4301, 4301>>, <<4304, 4680>>, <<4682, 4685>>, <<4688, 4694>>, <<4696, 4696>>,
    <<4698, 4701>>, <<4704, 4744>>, <<4746, 4749>>, <<4752, 4784>>, <<4786, 4789>>,
    <<4792, 4798>>, <<4800, 4800>>, <<4802, 4805>>, <<4808, 4822>>, <<4824, 4880>>,
    <<4882, 4885>>, <<4888, 4954>>, <<4957, 4988>>, <<4992, 5017>>, <<5024, 5109>>,
    <<5112, 5117>>, <<5120, 5759>>, <<5761, 5788>>, <<5792, 5880>>, <<5888, 5909>>,
    <<5919, 5942>>, <<5952, 5971>>, <<5984, 5996>>, <<5998, 6000>>, <<6002, 6003>>,
    <<6016, 6109>>, <<6112, 6121>>, <<6128, 6137>>, <<6144, 6157>>, <<6159, 6169>>,
    <<6176, 6264>>, <<6272, 6314>>, <<6320, 6389>>, <<6400, 6430>>, <<6432, 6443>>,
    <<6448, 6459>>, <<6464, 6464>>, <<6468, 6509>>, <<6512, 6516>>, <<6528, 6571>>,
    <<6576, 6601>>, <<6608, 6618>>, <<6622, 6683>>, <<6686, 6750>>, <<6752, 6780>>,
    <<6783, 6793>>, <<6800, 6809>>, <<6816, 6829>>, <<6832, 6862>>, <<6912, 6988>>,
    <<6992, 7038>>, <<7040, 7155>>, <<7164, 7223>>, <<7227, 7241>>, <<7245, 7304>>,
    <<7312, 7354>>, <<7357, 7367>>, <<7376, 7418>>, <<7424, 7957>>, <<7960, 7965>>,
    <<7968, 8005>>, <<8008, 8013>>, <<8016, 8023>>, <<8025, 8025>>, <<8027, 8027>>,
    <<8029, 8029>>, <<8031, 8061>>, <<8064, 8116>>, <<8118, 8132>>, <<8134, 8147>>,
    <<8150, 8155>>, <<8157, 8175>>, <<8178, 8180>>, <<8182, 8190>>, <<8208, 8231>>,
    <<8240, 8286>>, <<8304, 8305>>, <<8308, 8334>>, <<8336, 8348>>, <<8352, 8384>>,
    <<8400, 8432>>, <<8448, 8587>>, <<8592, 9254>>, <<9280, 9290>>, <<9312, 11123>>,
    <<11126, 11157>>, <<11159, 11507>>, <<11513, 11557>>, <<11559, 11559>>, <<11565, 11565>>,
    <<11568, 11623>>, <<11631, 11632>>, <<11647, 11670>>, <<11680, 11686>>, <<11688, 11694>>,
    <<11696, 11702>>, <<11704, 11710>>, <<11712, 11718>>, <<11720, 11726>>, <<11728, 11734>>,
    <<11736, 11742>>, <<11744, 11869>>, <<11904, 11929>>, <<11931, 12019>>, <<12032, 12245>>,
    <<12272, 12283>>, <<12289, 12351>>, <<12353, 12438>>, <<12441, 12543>>, <<12549, 12591>>,
    <<12593, 12686>>, <<12688, 12771>>, <<12784, 12830>>, <<12832, 42124>>, <<42128, 42182>>,
    <<42192, 42539>>, <<42560, 42743>>, <<42752, 42954>>, <<42960, 42961>>, <<42963, 42963>>,
    <<42965, 42969>>, <<42994, 43052>>, <<43056, 43065>>, <<43072, 43127>>, <<43136, 43205>>,
    <<43214, 43225>>, <<43232, 43347>>, <<43359, 43388>>, <<43392, 43469>>, <<43471, 43481>>,
    <<43486, 43518>>, <<43520, 43574>>, <<43584, 43597>>, <<43600, 43609>>, <<43612, 43714>>,
    <<43739, 43766>>, <<43777, 43782>>, <<43785, 43790>>, <<43793, 43798>>, <<43808, 43814>>,
    <<43816, 43822>>, <<43824, 43883>>, <<43888, 44013>>, <<44016, 44025>>, <<44032, 55203>>,
    <<55216, 55238>>, <<55243, 55291>>, <<63744, 64109>>, <<64112, 64217>>, <<64256, 64262>>,
    <<64275, 64279>>, <<64285, 64310>>, <<64312, 64316>>, <<64318, 64318>>, <<64320, 64321>>,
    <<64323, 64324>>, <<64326, 64450>>, <<64467, 64911>>, <<64914, 64967>>, <<64975, 64975>>,
    <<65008, 65049>>, <<65056, 65106>>, <<65108, 65126>>, <<65128, 65131>>, <<65136, 65140>>,
    <<65142, 65276>>, <<65281, 65470>>, <<65474, 65479>>, <<65482, 65487>>, <<65490, 65495>>,
    <<65498, 65500>>, <<65504, 65510>>, <<65512, 65518>>, <<65532, 65533>>, <<65536, 65547>>,
    <<65549, 65574>>, <<65576, 65594>>, <<65596, 65597>>, <<65599, 65613>>, <<65616, 65629>>,
    <<65664, 65786>>, <<65792, 65794>>, <<65799, 65843>>, <<65847, 65934>>, <<65936, 65948>>,
    <<65952, 65952>>, <<66000, 66045>>, <<66176, 66204>>, <<66208, 66256>>, <<66272, 66299>>,
    <<66304, 66339>>, <<66349, 66378>>, <<66384, 66426>>, <<66432, 66461>>, <<66463, 66499>>,
    <<66504, 66517>>, <<66560, 66717>>, <<66720, 66729>>, <<66736, 66771>>, <<66776, 66811>>,
    <<66816, 66855>>, <<66864, 66915>>, <<66927, 66938>>, <<66940, 66954>>, <<66956, 66962>>,
    <<66964, 66965>>, <<66967, 66977>>, <<66979, 66993>>, <<66995, 67001>>, <<67003, 67004>>,
    <<67072, 67382>>, <<67392, 67413>>, <<67424, 67431>>, <<67456, 67461>>, <<67463, 67504>>,
    <<67506, 67514>>, <<67584, 67589>>, <<67592, 67592>>, <<67594, 67637>>, <<67639, 67640>>,
    <<67644, 67644>>, <<67647, 67669>>, <<67671, 67742>>, <<67751, 67759>>, <<67808, 67826>>,
    <<67828, 67829>>, <<67835, 67867>>, <<67871, 67897>>, <<67903, 67903>>, <<67968, 68023>>,
    <<68028, 68047>>, <<68050, 68099>>, <<68101, 68102>>, <<68108, 68115>>, <<68117, 68119>>,
    <<68121, 68149>>, <<68152, 68154>>, <<68159, 68168>>, <<68176, 68184>>, <<68192, 68255>>,
    <<68288, 68326>>, <<68331, 68342>>, <<68352, 68405>>, <<68409, 68437>>, <<68440, 68466>>,
    <<68472, 68497>>, <<68505, 68508>>, <<68521, 68527>>, <<68608, 68680>>, <<68736, 68786>>,
    <<68800, 68850>>, <<68858, 68903>>, <<68912, 68921>>, <<69216, 69246>>, <<69248, 69289>>,
    <<69291, 69293>>, <<69296, 69297>>, <<69376, 69415>>, <<69424, 69465>>, <<69488, 69513>>,
    <<69552, 69579>>, <<69600, 69622>>, <<69632, 69709>>, <<69714, 69749>>, <<69759, 69820>>,
    <<69822, 69826>>, <<69840, 69864>>, <<69872, 69881>>, <<69888, 69940>>, <<69942, 69959>>,
    <<69968, 70006>>, <<70016, 70111>>, <<70113, 70132>>, <<70144, 70161>>, <<70163, 70206>>,
    <<70272, 70278>>, <<70280, 70280>>, <<70282, 70285>>, <<70287, 70301>>, <<70303, 70313>>,
    <<70320, 70378>>, <<70384, 70393>>, <<70400, 70403>>, <<70405, 70412>>, <<70415, 70416>>,
    <<70419, 70440>>, <<70442, 70448>>, <<70450, 70451>>, <<70453, 70457>>, <<70459, 70468>>,
    <<70471, 70472>>, <<70475, 70477>>, <<70480, 70480>>, <<70487, 70487>>, <<70493, 70499>>,
    <<70502, 70508>>, <<70512, 70516>>, <<70656, 70747>>, <<70749, 70753>>, <<70784, 70855>>,
    <<70864, 70873>>, <<71040, 71093>>, <<71096, 71133>>, <<71168, 71236>>, <<71248, 71257>>,
    <<71264, 71276>>, <<71296, 71353>>, <<71360, 71369>>, <<71424, 71450>>, <<71453, 71467>>,
    <<71472, 71494>>, <<71680, 71739>>, <<71840, 71922>>, <<71935, 71942>>, <<71945, 71945>>,
    <<71948, 71955>>, <<71957, 71958>>, <<71960, 71989>>, <<71991, 71992>>, <<71995, 72006>>,
    <<72016, 72025>>, <<72096, 72103>>, <<72106, 72151>>, <<72154, 72164>>, <<72192, 72263>>,
    <<72272, 72354>>, <<72368, 72440>>, <<72704, 72712>>, <<72714, 72758>>, <<72760, 72773>>,
    <<72784, 72812>>, <<72816, 72847>>, <<72850, 72871>>, <<72873, 72886>>, <<72960, 72966>>,
    <<72968, 72969>>, <<72971, 73014>>, <<73018, 73018>>, <<73020, 73021>>, <<73023, 73031>>,
    <<73040, 73049>>, <<73056, 73061>>, <<73063, 73064>>, <<73066, 73102>>, <<73104, 73105>>,
    <<73107, 73112>>, <<73120, 73129>>, <<73440, 73464>>, <<73648, 73648>>, <<73664, 73713>>,
    <<73727, 74649>>, <<74752, 74862>>, <<74864, 74868>>, <<74880, 75075>>, <<77712, 77810>>,
    <<77824, 78894>>, <<82944, 83526>>, <<92160, 92728>>, <<92736, 92766>>, <<92768, 92777>>,
    <<92782, 92862>>, <<92864, 92873>>, <<92880, 92909>>, <<92912, 92917>>, <<92928, 92997>>,
    <<93008, 93017>>, <<93019, 93025>>, <<93027, 93047>>, <<93053, 93071>>, <<93760, 93850>>,
    <<93952, 94026>>, <<94031, 94087>>, <<94095, 94111>>, <<94176, 94180>>, <<94192, 94193>>,
    <<94208, 100343>>, <<100352, 101589>>, <<101632, 101640>>, <<110576, 110579>>,
    <<110581, 110587>>, <<110589, 110590>>, <<110592, 110882>>, <<110928, 110930>>,
    <<110948, 110951>>, <<110960, 111355>>, <<113664, 113770>>, <<113776, 113788>>,
    <<113792, 113800>>, <<113808, 113817>>, <<113820, 113823>>, <<118528, 118573>>,
    <<118576, 118598>>, <<118608, 118723>>, <<118784, 119029>>, <<119040, 119078>>,
    <<119081, 119154>>, <<119163, 119274>>, <<119296, 119365>>, <<119520, 119539>>,
    <<119552, 119638>>, <<119648, 119672>>, <<119808, 119892>>, <<119894, 119964>>,
    <<119966, 119967>>, <<119970, 119970>>, <<119973, 119974>>, <<119977, 119980>>,
    <<119982, 119993>>, <<119995, 119995>>, <<119997, 120003>>, <<120005, 120069>>,
    <<120071, 120074>>, <<120077, 120084>>, <<120086, 120092>>, <<120094, 120121>>,
    <<120123, 120126>>, <<120128, 120132>>, <<120134, 120134>>, <<120138, 120144>>,
    <<120146, 120485>>, <<120488, 120779>>, <<120782, 121483>>, <<121499, 121503>>,
    <<121505, 121519>>, <<122624, 122654>>, <<122880, 122886>>, <<122888, 122904>>,
    <<122907, 122913>>, <<122915, 122916>>, <<122918, 122922>>, <<123136, 123180>>,
    <<123184, 123197>>, <<123200, 123209>>, <<123214, 123215>>, <<123536, 123566>>,
    <<123584, 123641>>, <<123647, 123647>>, <<124896, 124902>>, <<124904, 124907>>,
    <<124909, 124910>>, <<124912, 124926>>, <<124928, 125124>>, <<125127, 125142>>,
    <<125184, 125259>>, <<125264, 125273>>, <<125278, 125279>>, <<126065, 126132>>,
    <<126209, 126269>>, <<126464, 126467>>, <<126469, 126495>>, <<126497, 126498>>,
    <<126500, 126500>>, <<126503, 126503>>, <<126505, 126514>>, <<126516, 126519>>,
    <<126521, 126521>>, <<126523, 126523>>, <<126530, 126530>>, <<126535, 126535>>,
    <<126537, 126537>>, <<126539, 126539>>, <<126541, 126543>>, <<126545, 126546>>,
    <<126548, 126548>>, <<126551, 126551>>, <<126553, 126553>>, <<126555, 126555>>,
    <<126557, 126557>>, <<126559, 126559>>, <<126561, 126562>>, <<126564, 126564>>,
    <<126567, 126570>>, <<126572, 126578>>, <<126580, 126583>>, <<126585, 126588>>,
    <<126590, 126590>>, <<126592, 126601>>, <<126603, 126619>>, <<126625, 126627>>,
    <<126629, 126633>>, <<126635, 126651>>, <<126704, 126705>>, <<126976, 127019>>,
    <<127024, 127123>>, <<127136, 127150>>, <<127153, 127167>>, <<127169, 127183>>,
    <<127185, 127221>>, <<127232, 127405>>, <<127462, 127490>>, <<127504, 127547>>,
    <<127552, 127560>>, <<127568, 127569>>, <<127584, 127589>>, <<127744, 128727>>,
    <<128733, 128748>>, <<128752, 128764>>, <<128768, 128883>>, <<128896, 128984>>,
    <<128992, 129003>>, <<129008, 129008>>, <<129024, 129035>>, <<129040, 129095>>,
    <<129104, 129113>>, <<129120, 129159>>, <<129168, 129197>>, <<129200, 129201>>,
    <<129280, 129619>>, <<129632, 129645>>, <<129648, 129652>>, <<129656, 129660>>,
    <<129664, 129670>>, <<129680, 129708>>, <<129712, 129722>>, <<129728, 129733>>,
    <<129744, 129753>>, <<129760, 129767>>, <<129776, 129782>>, <<129792, 129938>>,
    <<129940, 129994>>, <<130032, 130041>>, <<131072, 173791>>, <<173824, 177976>>,
    <<177984, 178205>>, <<178208, 183969>>, <<183984, 191456>>, <<194560, 195101>>,
    <<196608, 201546>>, <<917760, 917999>>
    >>

\* str.isprintable for one character
IsPrintable(c) == InRanges(PrintableRanges, c)

HexDigit(d) == <<48, 49, 50, 51, 52, 53, 54, 55, 56, 57, 97, 98, 99, 100, 101, 102>>[d + 1]  \* "0123456789abcdef"

RECURSIVE Hex(_, _)
\* n in hexadecimal, width digits
Hex(n, width) == IF width = 0 THEN <<>> ELSE Hex(n \div 16, width - 1) \o <<HexDigit(n % 16)>>

\* The quote repr puts around s: the double one when s holds ' and no ", else '.
ReprQuote(s) ==
    IF (\E i \in 1..Len(s) : s[i] = 39) /\ ~(\E i \in 1..Len(s) : s[i] = 34)  \* "'" """
    THEN 34 ELSE 39  \* """ "'"

\* What repr writes for c: the quote and the backslash behind a backslash, tab,
\* line feed and return as \t \n \r, a printable character as it is, and any
\* other as \xhh, \uhhhh or \Uhhhhhhhh by the size of its code point.
ReprChar(c, quote) ==
    IF c = quote \/ c = 92 THEN <<92, c>>  \* "\"
    ELSE IF c = 9 THEN <<92, 116>>  \* "\t"
    ELSE IF c = 10 THEN <<92, 110>>  \* "\n"
    ELSE IF c = 13 THEN <<92, 114>>  \* "\r"
    ELSE IF IsPrintable(c) THEN <<c>>
    ELSE IF c < 256 THEN <<92, 120>> \o Hex(c, 2)  \* "\x"
    ELSE IF c < 65536 THEN <<92, 117>> \o Hex(c, 4)  \* "\u"
    ELSE <<92, 85>> \o Hex(c, 8)  \* "\U"

Quoted(s, quote) ==
    <<quote>> \o Concat([i \in 1..Len(s) |-> ReprChar(s[i], quote)]) \o <<quote>>

\* repr(s) for a str
StrRepr(s) == Quoted(s, ReprQuote(s))

RECURSIVE PyRepr(_)
\* repr(d) for a dict: a sequence of [key, val], the keys strings
DictRepr(d) ==
    <<123>> \o JoinComma([i \in 1..Len(d) |-> StrRepr(d[i].key) \o <<58, 32>> \o PyRepr(d[i].val)])  \* "{" ": "
    \o <<125>>  \* "}"

\* repr(value)
PyRepr(v) ==
    CASE v.type = "str"   -> StrRepr(v.str)
      [] v.type = "int"   -> IntStr(v.num)
      [] v.type = "float" -> FloatRepr(v.float)
      [] v.type = "bool"  -> IF v.num = 1 THEN <<84,114,117,101>> ELSE <<70,97,108,115,101>>  \* "True" "False"
      [] v.type = "none"  -> <<78,111,110,101>>  \* "None"
      [] v.type = "list"  -> <<91>> \o JoinComma([i \in 1..Len(v.items) |-> DictRepr(v.items[i])])  \* "["
                             \o <<93>>  \* "]"

\* str(value): the text itself for a str, repr(value) for the other types
PyStr(v) == IF v.type = "str" THEN v.str ELSE PyRepr(v)

\* bool(value)
Truthy(v) ==
    CASE v.type = "str"   -> Len(v.str) > 0
      [] v.type = "list"  -> Len(v.items) > 0
      [] v.type = "none"  -> FALSE
      [] v.type = "float" -> ~IsZero(v.float)
      [] OTHER            -> v.num # 0

\* A dict is an ordered sequence of [key, val] with distinct keys.
HasKey(d, k) == \E i \in 1..Len(d) : d[i].key = k

\* dict.get(k, default)
DictGet(d, k, default) ==
    IF HasKey(d, k) THEN d[CHOOSE i \in 1..Len(d) : d[i].key = k].val ELSE default

----------------------------------------------------------------------------
(* TemplateEngine.render                                                   *)

ForOpen    == <<123,37,32,102,111,114,32,105,116,101,109,32,105,110,32>>  \* "{% for item in "
TagClose   == <<32,37,125>>  \* " %}"
ElseTag    == <<123,37,32,101,108,115,101,32,37,125>>  \* "{% else %}"
EndForTag  == <<123,37,32,101,110,100,102,111,114,32,37,125>>  \* "{% endfor %}"
IfOpen     == <<123,37,32,105,102,32>>  \* "{% if "
EndIfTag   == <<123,37,32,101,110,100,105,102,32,37,125>>  \* "{% endif %}"
VarOpen    == <<123,123,32>>  \* "{{ "
VarClose   == <<32,125,125>>  \* " }}"
ItemPrefix == <<105,116,101,109,46>>  \* "item."

TemplateNotFound ==
    <<60,104,49,62,69,114,114,111,114,58,32,84,101,109,112,108,97,116,101,32,  \* "<h1>Error: Template "
      102,105,108,101,32,110,111,116,32,102,111,117,110,100,46,60,47,104,49,62>>  \* "file not found.</h1>"

\* The characters \w of the re module matches in a str pattern: the alphanumeric
\* ones of Unicode (str.isalnum) and the underscore, as runs <<first, last>> of
\* code points in order.
WordRanges ==
    <<
    <<48, 57>>, <<65, 90>>, <<95, 95>>, <<97, 122>>, <<170, 170>>, <<178, 179>>, <<181, 181>>,
    <<185, 186>>, <<188, 190>>, <<192, 214>>, <<216, 246>>, <<248, 705>>, <<710, 721>>,
    <<736, 740>>, <<748, 748>>, <<750, 750>>, <<880, 884>>, <<886, 887>>, <<890, 893>>,
    <<895, 895>>, <<902, 902>>, <<904, 906>>, <<908, 908>>, <<910, 929>>, <<931, 1013>>,
    <<1015, 1153>>, <<1162, 1327>>, <<1329, 1366>>, <<1369, 1369>>, <<1376, 1416>>,
    <<1488, 1514>>, <<1519, 1522>>, <<1568, 1610>>, <<1632, 1641>>, <<1646, 1647>>,
    <<1649, 1747>>, <<1749, 1749>>, <<1765, 1766>>, <<1774, 1788>>, <<1791, 1791>>,
    <<1808, 1808>>, <<1810, 1839>>, <<1869, 1957>>, <<1969, 1969>>, <<1984, 2026>>,
    <<2036, 2037>>, <<2042, 2042>>, <<2048, 2069>>, <<2074, 2074>>, <<2084, 2084>>,
    <<2088, 2088>>, <<2112, 2136>>, <<2144, 2154>>, <<2160, 2183>>, <<2185, 2190>>,
    <<2208, 2249>>, <<2308, 2361>>, <<2365, 2365>>, <<2384, 2384>>, <<2392, 2401>>,
    <<2406, 2415>>, <<2417, 2432>>, <<2437, 2444>>, <<2447, 2448>>, <<2451, 2472>>,
    <<2474, 2480>>, <<2482, 2482>>, <<2486, 2489>>, <<2493, 2493>>, <<2510, 2510>>,
    <<2524, 2525>>, <<2527, 2529>>, <<2534, 2545>>, <<2548, 2553>>, <<2556, 2556>>,
    <<2565, 2570>>, <<2575, 2576>>, <<2579, 2600>>, <<2602, 2608>>, <<2610, 2611>>,
    <<2613, 2614>>, <<2616, 2617>>, <<2649, 2652>>, <<2654, 2654>>, <<2662, 2671>>,
    <<2674, 2676>>, <<2693, 2701>>, <<2703, 2705>>, <<2707, 2728>>, <<2730, 2736>>,
    <<2738, 2739>>, <<2741, 2745>>, <<2749, 2749>>, <<2768, 2768>>, <<2784, 2785>>,
    <<2790, 2799>>, <<2809, 2809>>, <<2821, 2828>>, <<2831, 2832>>, <<2835, 2856>>,
    <<2858, 2864>>, <<2866, 2867>>, <<2869, 2873>>, <<2877, 2877>>, <<2908, 2909>>,
    <<2911, 2913>>, <<2918, 2927>>, <<2929, 2935>>, <<2947, 2947>>, <<2949, 2954>>,
    <<2958, 2960>>, <<2962, 2965>>, <<2969, 2970>>, <<2972, 2972>>, <<2974, 2975>>,
    <<2979, 2980>>, <<2984, 2986>>, <<2990, 3001>>, <<3024, 3024>>, <<3046, 3058>>,
    <<3077, 3084>>, <<3086, 3088>>, <<3090, 3112>>, <<3114, 3129>>, <<3133, 3133>>,
    <<3160, 3162>>, <<3165, 3165>>, <<3168, 3169>>, <<3174, 3183>>, <<3192, 3198>>,
    <<3200, 3200>>, <<3205, 3212>>, <<3214, 3216>>, <<3218, 3240>>, <<3242, 3251>>,
    <<3253, 3257>>, <<3261, 3261>>, <<3293, 3294>>, <<3296, 3297>>, <<3302, 3311>>,
    <<3313, 3314>>, <<3332, 3340>>, <<3342, 3344>>, <<3346, 3386>>, <<3389, 3389>>,
    <<3406, 3406>>, <<3412, 3414>>, <<3416, 3425>>, <<3430, 3448>>, <<3450, 3455>>,
    <<3461, 3478>>, <<3482, 3505>>, <<3507, 3515>>, <<3517, 3517>>, <<3520, 3526>>,
    <<3558, 3567>>, <<3585, 3632>>, <<3634, 3635>>, <<3648, 3654>>, <<3664, 3673>>,
    <<3713, 3714>>, <<3716, 3716>>, <<3718, 3722>>, <<3724, 3747>>, <<3749, 3749>>,
    <<3751, 3760>>, <<3762, 3763>>, <<3773, 3773>>, <<3776, 3780>>, <<3782, 3782>>,
    <<3792, 3801>>, <<3804, 3807>>, <<3840, 3840>>, <<3872, 3891>>, <<3904, 3911>>,
    <<3913, 3948>>, <<3976, 3980>>, <<4096, 4138>>, <<4159, 4169>>, <<4176, 4181>>,
    <<4186, 4189>>, <<4193, 4193>>, <<4197, 4198>>, <<4206, 4208>>, <<4213, 4225>>,
    <<4238, 4238>>, <<4240, 4249>>, <<4256, 4293>>, <<4295, 4295>>, <<4301, 4301>>,
    <<4304, 4346>>, <<4348, 4680>>, <<4682, 4685>>, <<4688, 4694>>, <<4696, 4696>>,
    <<4698, 4701>>, <<4704, 4744>>, <<4746, 4749>>, <<4752, 4784>>, <<4786, 4789>>,
    <<4792, 4798>>, <<4800, 4800>>, <<4802, 4805>>, <<4808, 4822>>, <<4824, 4880>>,
    <<4882, 4885>>, <<4888, 4954>>, <<4969, 4988>>, <<4992, 5007>>, <<5024, 5109>>,
    <<5112, 5117>>, <<5121, 5740>>, <<5743, 5759>>, <<5761, 5786>>, <<5792, 5866>>,
    <<5870, 5880>>, <<5888, 5905>>, <<5919, 5937>>, <<5952, 5969>>, <<5984, 5996>>,
    <<5998, 6000>>, <<6016, 6067>>, <<6103, 6103>>, <<6108, 6108>>, <<6112, 6121>>,
    <<6128, 6137>>, <<6160, 6169>>, <<6176, 6264>>, <<6272, 6276>>, <<6279, 6312>>,
    <<6314, 6314>>, <<6320, 6389>>, <<6400, 6430>>, <<6470, 6509>>, <<6512, 6516>>,
    <<6528, 6571>>, <<6576, 6601>>, <<6608, 6618>>, <<6656, 6678>>, <<6688, 6740>>,
    <<6784, 6793>>, <<6800, 6809>>, <<6823, 6823>>, <<6917, 6963>>, <<6981, 6988>>,
    <<6992, 7001>>, <<7043, 7072>>, <<7086, 7141>>, <<7168, 7203>>, <<7232, 7241>>,
    <<7245, 7293>>, <<7296, 7304>>, <<7312, 7354>>, <<7357, 7359>>, <<7401, 7404>>,
    <<7406, 7411>>, <<7413, 7414>>, <<7418, 7418>>, <<7424, 7615>>, <<7680, 7957>>,
    <<7960, 7965>>, <<7968, 8005>>, <<8008, 8013>>, <<8016, 8023>>, <<8025, 8025>>,
    <<8027, 8027>>, <<8029, 8029>>, <<8031, 8061>>, <<8064, 8116>>, <<8118, 8124>>,
    <<8126, 8126>>, <<8130, 8132>>, <<8134, 8140>>, <<8144, 8147>>, <<8150, 8155>>,
    <<8160, 8172>>, <<8178, 8180>>, <<8182, 8188>>, <<8304, 8305>>, <<8308, 8313>>,
    <<8319, 8329>>, <<8336, 8348>>, <<8450, 8450>>, <<8455, 8455>>, <<8458, 8467>>,
    <<8469, 8469>>, <<8473, 8477>>, <<8484, 8484>>, <<8486, 8486>>, <<8488, 8488>>,
    <<8490, 8493>>, <<8495, 8505>>, <<8508, 8511>>, <<8517, 8521>>, <<8526, 8526>>,
    <<8528, 8585>>, <<9312, 9371>>, <<9450, 9471>>, <<10102, 10131>>, <<11264, 11492>>,
    <<11499, 11502>>, <<11506, 11507>>, <<11517, 11517>>, <<11520, 11557>>, <<11559, 11559>>,
    <<11565, 11565>>, <<11568, 11623>>, <<11631, 11631>>, <<11648, 11670>>, <<11680, 11686>>,
    <<11688, 11694>>, <<11696, 11702>>, <<11704, 11710>>, <<11712, 11718>>, <<11720, 11726>>,
    <<11728, 11734>>, <<11736, 11742>>, <<11823, 11823>>, <<12293, 12295>>, <<12321, 12329>>,
    <<12337, 12341>>, <<12344, 12348>>, <<12353, 12438>>, <<12445, 12447>>, <<12449, 12538>>,
    <<12540, 12543>>, <<12549, 12591>>, <<12593, 12686>>, <<12690, 12693>>, <<12704, 12735>>,
    <<12784, 12799>>, <<12832, 12841>>, <<12872, 12879>>, <<12881, 12895>>, <<12928, 12937>>,
    <<12977, 12991>>, <<13312, 19903>>, <<19968, 42124>>, <<42192, 42237>>, <<42240, 42508>>,
    <<42512, 42539>>, <<42560, 42606>>, <<42623, 42653>>, <<42656, 42735>>, <<42775, 42783>>,
    <<42786, 42888>>, <<42891, 42954>>, <<42960, 42961>>, <<42963, 42963>>, <<42965, 42969>>,
    <<42994, 43009>>, <<43011, 43013>>, <<43015, 43018>>, <<43020, 43042>>, <<43056, 43061>>,
    <<43072, 43123>>, <<43138, 43187>>, <<43216, 43225>>, <<43250, 43255>>, <<43259, 43259>>,
    <<43261, 43262>>, <<43264, 43301>>, <<43312, 43334>>, <<43360, 43388>>, <<43396, 43442>>,
    <<43471, 43481>>, <<43488, 43492>>, <<43494, 43518>>, <<43520, 43560>>, <<43584, 43586>>,
    <<43588, 43595>>, <<43600, 43609>>, <<43616, 43638>>, <<43642, 43642>>, <<43646, 43695>>,
    <<43697, 43697>>, <<43701, 43702>>, <<43705, 43709>>, <<43712, 43712>>, <<43714, 43714>>,
    <<43739, 43741>>, <<43744, 43754>>, <<43762, 43764>>, <<43777, 43782>>, <<43785, 43790>>,
    <<43793, 43798>>, <<43808, 43814>>, <<43816, 43822>>, <<43824, 43866>>, <<43868, 43881>>,
    <<43888, 44002>>, <<44016, 44025>>, <<44032, 55203>>, <<55216, 55238>>, <<55243, 55291>>,
    <<63744, 64109>>, <<64112, 64217>>, <<64256, 64262>>, <<64275, 64279>>, <<64285, 64285>>,
    <<64287, 64296>>, <<64298, 64310>>, <<64312, 64316>>, <<64318, 64318>>, <<64320, 64321>>,
    <<64323, 64324>>, <<64326, 64433>>, <<64467, 64829>>, <<64848, 64911>>, <<64914, 64967>>,
    <<65008, 65019>>, <<65136, 65140>>, <<65142, 65276>>, <<65296, 65305>>, <<65313, 65338>>,
    <<65345, 65370>>, <<65382, 65470>>, <<65474, 65479>>, <<65482, 65487>>, <<65490, 65495>>,
    <<65498, 65500>>, <<65536, 65547>>, <<65549, 65574>>, <<65576, 65594>>, <<65596, 65597>>,
    <<65599, 65613>>, <<65616, 65629>>, <<65664, 65786>>, <<65799, 65843>>, <<65856, 65912>>,
    <<65930, 65931>>, <<66176, 66204>>, <<66208, 66256>>, <<66273, 66299>>, <<66304, 66339>>,
    <<66349, 66378>>, <<66384, 66421>>, <<66432, 66461>>, <<66464, 66499>>, <<66504, 66511>>,
    <<66513, 66517>>, <<66560, 66717>>, <<66720, 66729>>, <<66736, 66771>>, <<66776, 66811>>,
    <<66816, 66855>>, <<66864, 66915>>, <<66928, 66938>>, <<66940, 66954>>, <<66956, 66962>>,
    <<66964, 66965>>, <<66967, 66977>>, <<66979, 66993>>, <<66995, 67001>>, <<67003, 67004>>,
    <<67072, 67382>>, <<67392, 67413>>, <<67424, 67431>>, <<67456, 67461>>, <<67463, 67504>>,
    <<67506, 67514>>, <<67584, 67589>>, <<67592, 67592>>, <<67594, 67637>>, <<67639, 67640>>,
    <<67644, 67644>>, <<67647, 67669>>, <<67672, 67702>>, <<67705, 67742>>, <<67751, 67759>>,
    <<67808, 67826>>, <<67828, 67829>>, <<67835, 67867>>, <<67872, 67897>>, <<67968, 68023>>,
    <<68028, 68047>>, <<68050, 68096>>, <<68112, 68115>>, <<68117, 68119>>, <<68121, 68149>>,
    <<68160, 68168>>, <<68192, 68222>>, <<68224, 68255>>, <<68288, 68295>>, <<68297, 68324>>,
    <<68331, 68335>>, <<68352, 68405>>, <<68416, 68437>>, <<68440, 68466>>, <<68472, 68497>>,
    <<68521, 68527>>, <<68608, 68680>>, <<68736, 68786>>, <<68800, 68850>>, <<68858, 68899>>,
    <<68912, 68921>>, <<69216, 69246>>, <<69248, 69289>>, <<69296, 69297>>, <<69376, 69415>>,
    <<69424, 69445>>, <<69457, 69460>>, <<69488, 69505>>, <<69552, 69579>>, <<69600, 69622>>,
    <<69635, 69687>>, <<69714, 69743>>, <<69745, 69746>>, <<69749, 69749>>, <<69763, 69807>>,
    <<69840, 69864>>, <<69872, 69881>>, <<69891, 69926>>, <<69942, 69951>>, <<69956, 69956>>,
    <<69959, 69959>>, <<69968, 70002>>, <<70006, 70006>>, <<70019, 70066>>, <<70081, 70084>>,
    <<70096, 70106>>, <<70108, 70108>>, <<70113, 70132>>, <<70144, 70161>>, <<70163, 70187>>,
    <<70272, 70278>>, <<70280, 70280>>, <<70282, 70285>>, <<70287, 70301>>, <<70303, 70312>>,
    <<70320, 70366>>, <<70384, 70393>>, <<70405, 70412>>, <<70415, 70416>>, <<70419, 70440>>,
    <<70442, 70448>>, <<70450, 70451>>, <<70453, 70457>>, <<70461, 70461>>, <<70480, 70480>>,
    <<70493, 70497>>, <<70656, 70708>>, <<70727, 70730>>, <<70736, 70745>>, <<70751, 70753>>,
    <<70784, 70831>>, <<70852, 70853>>, <<70855, 70855>>, <<70864, 70873>>, <<71040, 71086>>,
    <<71128, 71131>>, <<71168, 71215>>, <<71236, 71236>>, <<71248, 71257>>, <<71296, 71338>>,
    <<71352, 71352>>, <<71360, 71369>>, <<71424, 71450>>, <<71472, 71483>>, <<71488, 71494>>,
    <<71680, 71723>>, <<71840, 71922>>, <<71935, 71942>>, <<71945, 71945>>, <<71948, 71955>>,
    <<71957, 71958>>, <<71960, 71983>>, <<71999, 71999>>, <<72001, 72001>>, <<72016, 72025>>,
    <<72096, 72103>>, <<72106, 72144>>, <<72161, 72161>>, <<72163, 72163>>, <<72192, 72192>>,
    <<72203, 72242>>, <<72250, 72250>>, <<72272, 72272>>, <<72284, 72329>>, <<72349, 72349>>,
    <<72368, 72440>>, <<72704, 72712>>, <<72714, 72750>>, <<72768, 72768>>, <<72784, 72812>>,
    <<72818, 72847>>, <<72960, 72966>>, <<72968, 72969>>, <<72971, 73008>>, <<73030, 73030>>,
    <<73040, 73049>>, <<73056, 73061>>, <<73063, 73064>>, <<73066, 73097>>, <<73112, 73112>>,
    <<73120, 73129>>, <<73440, 73458>>, <<73648, 73648>>, <<73664, 73684>>, <<73728, 74649>>,
    <<74752, 74862>>, <<74880, 75075>>, <<77712, 77808>>, <<77824, 78894>>, <<82944, 83526>>,
    <<92160, 92728>>, <<92736, 92766>>, <<92768, 92777>>, <<92784, 92862>>, <<92864, 92873>>,
    <<92880, 92909>>, <<92928, 92975>>, <<92992, 92995>>, <<93008, 93017>>, <<93019, 93025>>,
    <<93027, 93047>>, <<93053, 93071>>, <<93760, 93846>>, <<93952, 94026>>, <<94032, 94032>>,
    <<94099, 94111>>, <<94176, 94177>>, <<94179, 94179>>, <<94208, 100343>>,
    <<100352, 101589>>, <<101632, 101640>>, <<110576, 110579>>, <<110581, 110587>>,
    <<110589, 110590>>, <<110592, 110882>>, <<110928, 110930>>, <<110948, 110951>>,
    <<110960, 111355>>, <<113664, 113770>>, <<113776, 113788>>, <<113792, 113800>>,
    <<113808, 113817>>, <<119520, 119539>>, <<119648, 119672>>, <<119808, 119892>>,
    <<119894, 119964>>, <<119966, 119967>>, <<119970, 119970>>, <<119973, 119974>>,
    <<119977, 119980>>, <<119982, 119993>>, <<119995, 119995>>, <<119997, 120003>>,
    <<120005, 120069>>, <<120071, 120074>>, <<120077, 120084>>, <<120086, 120092>>,
    <<120094, 120121>>, <<120123, 120126>>, <<120128, 120132>>, <<120134, 120134>>,
    <<120138, 120144>>, <<120146, 120485>>, <<120488, 120512>>, <<120514, 120538>>,
    <<120540, 120570>>, <<120572, 120596>>, <<120598, 120628>>, <<120630, 120654>>,
    <<120656, 120686>>, <<120688, 120712>>, <<120714, 120744>>, <<120746, 120770>>,
    <<120772, 120779>>, <<120782, 120831>>, <<122624, 122654>>, <<123136, 123180>>,
    <<123191, 123197>>, <<123200, 123209>>, <<123214, 123214>>, <<123536, 123565>>,
    <<123584, 123627>>, <<123632, 123641>>, <<124896, 124902>>, <<124904, 124907>>,
    <<124909, 124910>>, <<124912, 124926>>, <<124928, 125124>>, <<125127, 125135>>,
    <<125184, 125251>>, <<125259, 125259>>, <<125264, 125273>>, <<126065, 126123>>,
    <<126125, 126127>>, <<126129, 126132>>, <<126209, 126253>>, <<126255, 126269>>,
    <<126464, 126467>>, <<126469, 126495>>, <<126497, 126498>>, <<126500, 126500>>,
    <<126503, 126503>>, <<126505, 126514>>, <<126516, 126519>>, <<126521, 126521>>,
    <<126523, 126523>>, <<126530, 126530>>, <<126535, 126535>>, <<126537, 126537>>,
    <<126539, 126539>>, <<126541, 126543>>, <<126545, 126546>>, <<126548, 126548>>,
    <<126551, 126551>>, <<126553, 126553>>, <<126555, 126555>>, <<126557, 126557>>,
    <<126559, 126559>>, <<126561, 126562>>, <<126564, 126564>>, <<126567, 126570>>,
    <<126572, 126578>>, <<126580, 126583>>, <<126585, 126588>>, <<126590, 126590>>,
    <<126592, 126601>>, <<126603, 126619>>, <<126625, 126627>>, <<126629, 126633>>,
    <<126635, 126651>>, <<127232, 127244>>, <<130032, 130041>>, <<131072, 173791>>,
    <<173824, 177976>>, <<177984, 178205>>, <<178208, 183969>>, <<183984, 191456>>,
    <<194560, 195101>>, <<196608, 201546>>
    >>

\* \w
IsWordChar(c) == InRanges(WordRanges, c)

RECURSIVE WordRunEnd(_, _)
\* The end of the greedy \w+ run starting at i (i - 1 when s[i] is no word character).
WordRunEnd(s, i) == IF i <= Len(s) /\ IsWordChar(s[i]) THEN WordRunEnd(s, i + 1) ELSE i - 1

\* f'{{ {key} }}'
Marker(key) == VarOpen \o key \o VarClose

\* f'{{ item.{key} }}'
ItemMarker(key) == VarOpen \o ItemPrefix \o key \o VarClose

\* loop_pattern matched at position i:
\*   \{% for item in (\w+) %\}(.*?)\{% else %\}(.*?)\{% endfor %\}   (DOTALL)
\* nameEnd is where the run of \w after the opening ends.
LoopMatchNamed(s, i, nameEnd) ==
    LET nameStart == i + Len(ForOpen)
        bodyStart == nameEnd + 1 + Len(TagClose)
        elseAt    == Find(s, ElseTag, bodyStart)
        elseStart == elseAt + Len(ElseTag)
        endAt     == IF elseAt = 0 THEN 0 ELSE Find(s, EndForTag, elseStart)
        ok        == /\ StartsWithAt(s, i, ForOpen)
                     /\ nameEnd >= nameStart
                     /\ StartsWithAt(s, nameEnd + 1, TagClose)
                     /\ elseAt > 0
                     /\ endAt > 0
    IN  IF ok
        THEN [ok |-> TRUE,
              g1 |-> SubSeq(s, nameStart, nameEnd),
              g2 |-> SubSeq(s, bodyStart, elseAt - 1),
              g3 |-> SubSeq(s, elseStart, endAt - 1),
              last |-> endAt + Len(EndForTag) - 1]
        ELSE [ok |-> FALSE, g1 |-> <<>>, g2 |-> <<>>, g3 |-> <<>>, last |-> 0]

LoopMatchAt(s, i) == LoopMatchNamed(s, i, WordRunEnd(s, i + Len(ForOpen)))

\* if_pattern matched at position i:  \{% if (\w+) %\}(.*?)\{% endif %\}   (DOTALL)
\* nameEnd is where the run of \w after the opening ends.
IfMatchNamed(s, i, nameEnd) ==
    LET nameStart == i + Len(IfOpen)
        bodyStart == nameEnd + 1 + Len(TagClose)
        endAt     == Find(s, EndIfTag, bodyStart)
        ok        == /\ StartsWithAt(s, i, IfOpen)
                     /\ nameEnd >= nameStart
                     /\ StartsWithAt(s, nameEnd + 1, TagClose)
                     /\ endAt > 0
    IN  IF ok
        THEN [ok |-> TRUE,
              g1 |-> SubSeq(s, nameStart, nameEnd),
              g2 |-> SubSeq(s, bodyStart, endAt - 1),
              last |-> endAt + Len(EndIfTag) - 1]
        ELSE [ok |-> FALSE, g1 |-> <<>>, g2 |-> <<>>, last |-> 0]

IfMatchAt(s, i) == IfMatchNamed(s, i, WordRunEnd(s, i + Len(IfOpen)))

RECURSIVE NextLoopMatch(_, _)
\* The leftmost position >= from where loop_pattern matches (0: none).
NextLoopMatch(s, from) ==
    LET i == Find(s, ForOpen, from)
    IN  IF i = 0 THEN 0
        ELSE IF LoopMatchAt(s, i).ok THEN i
        ELSE NextLoopMatch(s, i + 1)

RECURSIVE NextIfMatch(_, _)
\* The leftmost position >= from where if_pattern matches (0: none).
NextIfMatch(s, from) ==
    LET i == Find(s, IfOpen, from)
    IN  IF i = 0 THEN 0
        ELSE IF IfMatchAt(s, i).ok THEN i
        ELSE NextIfMatch(s, i + 1)

RECURSIVE SubstItem(_, _, _)
\* for key, val in item.items(): temp = temp.replace('{{ item.key }}', str(val))
SubstItem(temp, item, n) ==
    IF n > Len(item) THEN temp
    ELSE SubstItem(StrReplace(temp, ItemMarker(item[n].key), PyStr(item[n].val)), item, n + 1)

RECURSIVE LoopItems_StoredOrder(_, _, _, _)
\* Mutant of LoopItems: each rendered item is put after the earlier ones.
LoopItems_StoredOrder(loop_body, items, n, result_html) ==
    IF n > Len(items) THEN result_html
    ELSE LoopItems_StoredOrder(loop_body, items, n + 1,
                               result_html \o SubstItem(loop_body, items[n], 1))

RECURSIVE LoopItems(_, _, _, _)
\* for item in items: ...; result_html = temp + result_html
LoopItems(loop_body, items, n, result_html) ==
    IF n > Len(items) THEN result_html
    ELSE LoopItems(loop_body, items, n + 1, SubstItem(loop_body, items[n], 1) \o result_html)

\* `for item in items` is reached with a truthy value that is no list of dicts:
\* the iteration (or item.items()) raises.
loop_raises(ctx, m) ==
    LET items == DictGet(ctx, m.g1, PList(<<>>))
    IN  Truthy(items) /\ items.type # "list"

loop_replacer(ctx, m) ==
    LET items == DictGet(ctx, m.g1, PList(<<>>))
    IN  IF ~Truthy(items) THEN m.g3
        ELSE LoopItems(m.g2, items.items, 1, <<>>)

\* Mutant of if_replacer: the body is kept whenever the key is in the context.
if_replacer_KeyPresent(ctx, m) ==
    IF HasKey(ctx, m.g1) THEN m.g2 ELSE <<>>

\* return inner_content if context.get(var_name) else ""
if_replacer(ctx, m) ==
    IF Truthy(DictGet(ctx, m.g1, PNone)) THEN m.g2 ELSE <<>>

RECURSIVE LoopSub(_, _, _)
\* loop_pattern.sub(loop_replacer, content), scanning from position from.
LoopSub(s, ctx, from) ==
    LET i == NextLoopMatch(s, from)
        m == LoopMatchAt(s, i)
    IN  IF i = 0 THEN Rest(s, from)
        ELSE SubSeq(s, from, i - 1) \o loop_replacer(ctx, m) \o LoopSub(s, ctx, m.last + 1)

RECURSIVE LoopSubRaises(_, _, _)
\* Some call of loop_replacer made by the sub raises.
LoopSubRaises(s, ctx, from) ==
    LET i == NextLoopMatch(s, from)
        m == LoopMatchAt(s, i)
    IN  IF i = 0 THEN FALSE
        ELSE loop_raises(ctx, m) \/ LoopSubRaises(s, ctx, m.last + 1)

RECURSIVE IfSub(_, _, _)
\* if_pattern.sub(if_replacer, content)
IfSub(s, ctx, from) ==
    LET i == NextIfMatch(s, from)
        m == IfMatchAt(s, i)
    IN  IF i = 0 THEN Rest(s, from)
        ELSE SubSeq(s, from, i - 1) \o if_replacer(ctx, m) \o IfSub(s, ctx, m.last + 1)

\* Mutant of IsScalar: a bool is not taken for an int.
IsScalar_NoBool(v) == v.type \in {"str", "int", "float"}

\* isinstance(value, (str, int, float)); bool is a subclass of int.
IsScalar(v) == v.type \in {"str", "int", "float", "bool"}

RECURSIVE ScalarSub(_, _, _)
\* for key, value in context.items(): if isinstance(...): content = content.replace(...)
ScalarSub(s, ctx, n) ==
    IF n > Len(ctx) THEN s
    ELSE ScalarSub(IF IsScalar(ctx[n].val)
                   THEN StrReplace(s, Marker(ctx[n].key), PyStr(ctx[n].val))
                   ELSE s,
                   ctx, n + 1)

\* The file at template_path: missing, present but open()/read() fails, or readable.
FileMissing    == [state |-> "missing",    text |-> <<>>]
FileUnreadable == [state |-> "unreadable", text |-> <<>>]
FileWith(t)    == [state |-> "readable",   text |-> t]

\* render, lines 105-110: the scalar markers are replaced in the text the
\* conditionals left, and the page is returned.
render_scalars(ctx, loops, ifs) ==
    [status |-> "returned", html |-> ScalarSub(ifs, ctx, 1), loops |-> loops, ifs |-> ifs]

\* render, lines 94-103: the conditionals, in the text the loops left.
render_ifs(ctx, loops) == render_scalars(ctx, loops, IfSub(loops, ctx, 1))

\* TemplateEngine.render(context): the value returned, or the exception raised,
\* with the text after each of the three stages.
render(file, ctx) ==
    LET raised == [status |-> "raised", html |-> <<>>, loops |-> <<>>, ifs |-> <<>>]
    IN  IF file.state = "missing"
        THEN [status |-> "returned", html |-> TemplateNotFound, loops |-> <<>>, ifs |-> <<>>]
        ELSE IF file.state = "unreadable" THEN raised
        ELSE IF LoopSubRaises(file.text, ctx, 1) THEN raised
        ELSE render_ifs(ctx, LoopSub(file.text, ctx, 1))

----------------------------------------------------------------------------
(* UNITS_CONFIG: category -> units, in the order of the source.  factor is  *)
(* the float the literal of the source denotes (FactorsAsWritten).         *)

UNITS_CONFIG == <<
    [key |-> <<108,101,110,103,116,104>>,  \* "length"
     units |-> <<
        [code |-> <<107,109>>, has_factor |-> TRUE,  \* "km"
         literal |-> <<49,48,48,48,46,48>>,  \* "1000.0"
         factor |-> Fin(FALSE, <<125>>, 3),
         name |-> <<1050,1080,1083,1086,1084,1077,1090,1088,1099>>],
        [code |-> <<109>>, has_factor |-> TRUE,  \* "m"
         literal |-> <<49,46,48>>,  \* "1.0"
         factor |-> Fin(FALSE, <<1>>, 0),
         name |-> <<1052,1077,1090,1088,1099>>],  \* "\u041c\u0435\u0442\u0440\u044b"
        [code |-> <<99,109>>, has_factor |-> TRUE,  \* "cm"
         literal |-> <<48,46,48,49>>,  \* "0.01"
         factor |-> Fin(FALSE, <<5243, 3932, 27525, 163>>, 0 - 59),
         name |-> <<1057,1072,1085,1090,1080,1084,1077,1090,1088,1099>>],
        [code |-> <<109,109>>, has_factor |-> TRUE,  \* "mm"
         literal |-> <<48,46,48,48,49>>,  \* "0.001"
         factor |-> Fin(FALSE, <<27263, 27000, 25165, 32>>, 0 - 60),
         name |-> <<1052,1080,1083,1083,1080,1084,1077,1090,1088,1099>>],
        [code |-> <<109,105,108,101,115>>, has_factor |-> TRUE,  \* "miles"
         literal |-> <<49,54,48,57,46,51,52>>,  \* "1609.34"
         factor |-> Fin(FALSE, <<17039, 20971, 5488, 201>>, 0 - 42),
         name |-> <<1052,1080,1083,1080>>],  \* "\u041c\u0438\u043b\u0438"
        [code |-> <<121,97,114,100,115>>, has_factor |-> TRUE,  \* "yards"
         literal |-> <<48,46,57,49,52,52>>,  \* "0.9144"
         factor |-> Fin(FALSE, <<19451, 5085, 2831, 234>>, 0 - 53),
         name |-> <<1071,1088,1076,1099>>],  \* "\u042f\u0440\u0434\u044b"
        [code |-> <<102,101,101,116>>, has_factor |-> TRUE,  \* "feet"
         literal |-> <<48,46,51,48,52,56>>,  \* "0.3048"
         factor |-> Fin(FALSE, <<2045, 14313, 1887, 156>>, 0 - 54),
         name |-> <<1060,1091,1090,1099>>],  \* "\u0424\u0443\u0442\u044b"
        [code |-> <<105,110,99,104,101,115>>, has_factor |-> TRUE,  \* "inches"
         literal |-> <<48,46,48,50,53,52>>,  \* "0.0254"
         factor |-> Fin(FALSE, <<1363, 9542, 1258, 104>>, 0 - 57),
         name |-> <<1044,1102,1081,1084,1099>>]>>],  \* "\u0414\u044e\u0439\u043c\u044b"
    [key |-> <<119,101,105,103,104,116>>,  \* "weight"
     units |-> <<
        [code |-> <<107,103>>, has_factor |-> TRUE,  \* "kg"
         literal |-> <<49,46,48>>,  \* "1.0"
         factor |-> Fin(FALSE, <<1>>, 0),
         name |-> <<1050,1080,1083,1086,1075,1088,1072,1084,1084,1099>>],
        [code |-> <<103>>, has_factor |-> TRUE,  \* "g"
         literal |-> <<48,46,48,48,49>>,  \* "0.001"
         factor |-> Fin(FALSE, <<27263, 27000, 25165, 32>>, 0 - 60),
         name |-> <<1043,1088,1072,1084,1084,1099>>],  \* "\u0413\u0440\u0430\u043c\u043c\u044b"
        [code |-> <<109,103>>, has_factor |-> TRUE,  \* "mg"
         literal |-> <<48,46,48,48,48,48,48,49>>,  \* "0.000001"
         factor |-> Fin(FALSE, <<28045, 16747, 7134, 134>>, 0 - 72),
         name |-> <<1052,1080,1083,1083,1080,1075,1088,1072,1084,1084,1099>>],
        [code |-> <<112,111,117,110,100,115>>, has_factor |-> TRUE,  \* "pounds"
         literal |-> <<48,46,52,53,51,53,57,50>>,  \* "0.453592"
         factor |-> Fin(FALSE, <<20831, 12123, 979, 29>>, 0 - 51),
         name |-> <<1060,1091,1085,1090,1099>>],  \* "\u0424\u0443\u043d\u0442\u044b"
        [code |-> <<111,117,110,99,101,115>>, has_factor |-> TRUE,  \* "ounces"
         literal |-> <<48,46,48,50,56,51,52,57,53>>,  \* "0.0283495"
         factor |-> Fin(FALSE, <<20831, 12123, 979, 29>>, 0 - 55),
         name |-> <<1059,1085,1094,1080,1080>>]>>],  \* "\u0423\u043d\u0446\u0438\u0438"
    [key |-> <<116,101,109,112,101,114,97,116,117,114,101>>,  \* "temperature"
     units |-> <<
        [code |-> <<99>>, has_factor |-> FALSE,  \* "c"
         literal |-> <<>>,
         factor |-> Zero(FALSE),
         name |-> <<1062,1077,1083,1100,1089,1080,1081>>],  \* "\u0426\u0435\u043b\u044c\u0441\u0438\u0439"
        [code |-> <<102>>, has_factor |-> FALSE,  \* "f"
         literal |-> <<>>,
         factor |-> Zero(FALSE),
         name |-> <<1060,1072,1088,1077,1085,1075,1077,1081,1090>>],
        [code |-> <<107>>, has_factor |-> FALSE,  \* "k"
         literal |-> <<>>,
         factor |-> Zero(FALSE),
         name |-> <<1050,1077,1083,1100,1074,1080,1085>>]>>],  \* "\u041a\u0435\u043b\u044c\u0432\u0438\u043d"
    [key |-> <<118,111,108,117,109,101>>,  \* "volume"
     units |-> <<
        [code |-> <<108,105,116,101,114,115>>, has_factor |-> TRUE,  \* "liters"
         literal |-> <<49,46,48>>,  \* "1.0"
         factor |-> Fin(FALSE, <<1>>, 0),
         name |-> <<1051,1080,1090,1088,1099>>],  \* "\u041b\u0438\u0442\u0440\u044b"
        [code |-> <<109,108>>, has_factor |-> TRUE,  \* "ml"
         literal |-> <<48,46,48,48,49>>,  \* "0.001"
         factor |-> Fin(FALSE, <<27263, 27000, 25165, 32>>, 0 - 60),
         name |-> <<1052,1080,1083,1083,1080,1083,1080,1090,1088,1099>>],
        [code |-> <<103,97,108,108,111,110,115>>, has_factor |-> TRUE,  \* "gallons"
         literal |-> <<51,46,55,56,53,52,49>>,  \* "3.78541"
         factor |-> Fin(FALSE, <<7267, 4991, 8724, 242>>, 0 - 51),
         name |-> <<1043,1072,1083,1083,1086,1085,1099>>]>>]>>  \* "\u0413\u0430\u043b\u043b\u043e\u043d\u044b"


Temperature == <<116,101,109,112,101,114,97,116,117,114,101>>  \* "temperature"
Length      == <<108,101,110,103,116,104>>  \* "length"

CategoryIndex(category) == CHOOSE i \in 1..Len(UNITS_CONFIG) : UNITS_CONFIG[i].key = category

\* category in UNITS_CONFIG
KnownCategory(category) == \E i \in 1..Len(UNITS_CONFIG) : UNITS_CONFIG[i].key = category

\* UNITS_CONFIG[category]['units']
UnitsOf(category) == UNITS_CONFIG[CategoryIndex(category)].units

\* unit in units
KnownUnit(units, unit) == \E i \in 1..Len(units) : units[i].code = unit

UnitOf(units, unit) == units[CHOOSE i \in 1..Len(units) : units[i].code = unit]

\* 273.15
C273_15 == Fin(FALSE, <<13107, 26214, 9420, 68>>, 0 - 43)

\* Every factor, and 273.15, is the float its literal reads as.
FactorsAsWritten ==
    /\ \A c \in 1..Len(UNITS_CONFIG) : \A u \in 1..Len(UNITS_CONFIG[c].units) :
           UNITS_CONFIG[c].units[u].has_factor
           => FloatLiteral(UNITS_CONFIG[c].units[u].literal) = UNITS_CONFIG[c].units[u].factor
    /\ FloatLiteral(<<50,55,51,46,49,53>>) = C273_15  \* "273.15"

----------------------------------------------------------------------------
(* ConverterService                                                        *)

NotFound == [found |-> FALSE, val |-> Zero(FALSE)]
Found(x) == [found |-> TRUE,  val |-> x]

\* The int constants of _convert_temp, as the floats the arithmetic takes them for
C32 == DInt(32)
C5  == DInt(5)
C9  == DInt(9)

\* (value - 32) * 5 / 9, value - 273.15, or value
to_celsius(value, from_unit) ==
    IF from_unit = <<102>> THEN DDiv(DMul(DSub(value, C32), C5), C9)  \* "f"
    ELSE IF from_unit = <<107>> THEN DSub(value, C273_15)  \* "k"
    ELSE value

\* (celsius * 9 / 5) + 32, celsius + 273.15, or celsius
from_celsius(celsius, to_unit) ==
    IF to_unit = <<99>> THEN celsius  \* "c"
    ELSE IF to_unit = <<102>> THEN DAdd(DDiv(DMul(celsius, C9), C5), C32)  \* "f"
    ELSE IF to_unit = <<107>> THEN DAdd(celsius, C273_15)  \* "k"
    ELSE celsius

\* ConverterService._convert_temp
convert_temp(value, from_unit, to_unit) == from_celsius(to_celsius(value, from_unit), to_unit)

\* base_value = value * units[from_unit]['factor']; return base_value / units[to_unit]['factor']
convert_units(units, value, from_unit, to_unit) ==
    IF ~KnownUnit(units, from_unit) \/ ~KnownUnit(units, to_unit) THEN NotFound
    ELSE Found(DDiv(DMul(value, UnitOf(units, from_unit).factor),
                    UnitOf(units, to_unit).factor))

\* ConverterService.convert
convert(category, value, from_unit, to_unit) ==
    IF ~KnownCategory(category) THEN NotFound
    ELSE IF category = Temperature THEN Found(convert_temp(value, from_unit, to_unit))
    ELSE convert_units(UnitsOf(category), value, from_unit, to_unit)

----------------------------------------------------------------------------
(* RequestHandler                                                          *)

K_current_cat       == <<99,117,114,114,101,110,116,95,99,97,116>>  \* "current_cat"
K_amount            == <<97,109,111,117,110,116>>  \* "amount"
K_unit_from_options == <<117,110,105,116,95,102,114,111,109,95,111,112,116,105,111,110,115>>  \* "unit_from_options"
K_unit_to_options   == <<117,110,105,116,95,116,111,95,111,112,116,105,111,110,115>>  \* "unit_to_options"
K_history           == <<104,105,115,116,111,114,121>>  \* "history"
K_result            == <<114,101,115,117,108,116>>  \* "result"
K_explanation       == <<101,120,112,108,97,110,97,116,105,111,110>>  \* "explanation"
K_from_val          == <<102,114,111,109,95,118,97,108>>  \* "from_val"
K_to_val            == <<116,111,95,118,97,108>>  \* "to_val"

A_convert == <<99,111,110,118,101,114,116>>  \* "convert"
A_swap    == <<115,119,97,112>>  \* "swap"

HistoryCap    == 5
DefaultAmount == 100

\* f'<option value="{code}" {is_selected}>{data["name"]}</option>'
OptionHtml(unit, selected) ==
    <<60,111,112,116,105,111,110,32,118,97,108,117,101,61,34>> \o unit.code  \* "<option value=""
    \o <<34, 32>>  \* "" "
    \o (IF unit.code = selected THEN <<115,101,108,101,99,116,101,100>> ELSE <<>>)  \* "selected"
    \o <<62>> \o unit.name \o <<60,47,111,112,116,105,111,110,62>>  \* ">" "</option>"

RECURSIVE JoinOptions(_, _, _)
\* "\n".join(options)
JoinOptions(units, selected, n) ==
    IF n > Len(units) THEN <<>>
    ELSE (IF n > 1 THEN <<10>> ELSE <<>>)
         \o OptionHtml(units[n], selected) \o JoinOptions(units, selected, n + 1)

\* RequestHandler._get_options_html
get_options_html(category, selected) ==
    IF ~KnownCategory(category) THEN <<>> ELSE JoinOptions(UnitsOf(category), selected, 1)

\* One history entry: {'from_val': ..., 'to_val': ...}
HistoryEntry(from_val, to_val) ==
    <<[key |-> K_from_val, val |-> PStr(from_val)], [key |-> K_to_val, val |-> PStr(to_val)]>>

\* Mutant of AppendCapped: the newest entry is dropped instead of the oldest.
AppendCapped_EvictNewest(history, entry) ==
    LET h == Append(history, entry)
    IN  IF Len(h) > HistoryCap THEN SubSeq(h, 1, HistoryCap) ELSE h

\* request_history.append(entry); if len(request_history) > 5: request_history.pop(0)
AppendCapped(history, entry) ==
    LET h == Append(history, entry)
    IN  IF Len(h) > HistoryCap THEN Tail(h) ELSE h

NoResponse  == [status |-> "none", html |-> <<>>, loops |-> <<>>, ifs |-> <<>>]
Raised      == [status |-> "raised", html |-> <<>>, loops |-> <<>>, ifs |-> <<>>]

\* _send_response, lines 270-275: the page render returned is written; an exception
\* of render leaves the handler before anything is sent.
write_page(r) == IF r.status = "raised" THEN Raised ELSE [r EXCEPT !.status = "sent"]

\* RequestHandler._send_response
send_response(file, ctx) == write_page(render(file, ctx))

\* The context of do_GET, lines 197-204 (history: the list as it is then).
get_context(history, query_category) ==
    LET category  == IF KnownCategory(query_category) THEN query_category ELSE Length
        available == UnitsOf(category)
        unit_from == IF Len(available) > 0 THEN available[1].code ELSE <<>>
        unit_to   == IF Len(available) > 1 THEN available[2].code ELSE unit_from
    IN  <<[key |-> K_current_cat,       val |-> PStr(category)],
          [key |-> K_amount,            val |-> PInt(DefaultAmount)],
          [key |-> K_unit_from_options, val |-> PStr(get_options_html(category, unit_from))],
          [key |-> K_unit_to_options,   val |-> PStr(get_options_html(category, unit_to))],
          [key |-> K_history,           val |-> PList(history)],
          [key |-> K_result,            val |-> PStr(<<>>)]>>

\* RequestHandler.do_GET, for the category of the query string.
do_GET(history, file, query_category) ==
    [history |-> history, appended |-> <<>>,
     context |-> get_context(history, query_category),
     response |-> send_response(file, get_context(history, query_category))]

\* do_POST when nothing is converted: the action is swap, float() raised
\* ValueError, or convert returned None.
NotConverted ==
    [converted |-> FALSE, key_error |-> FALSE, done |-> FALSE,
     result |-> <<>>, explanation |-> <<>>, entry |-> <<>>]

\* do_POST, lines 245-253, for the formatted result: the names of the units are
\* looked up (KeyError for a code the category does not have), the explanation
\* and the history entry are built.
post_explain(category, amount_str, unit_from, unit_to, res_formatted) ==
    LET units       == UnitsOf(category)
        known       == KnownUnit(units, unit_from) /\ KnownUnit(units, unit_to)
        u_from_name == UnitOf(units, unit_from).name
        u_to_name   == UnitOf(units, unit_to).name
    IN  IF ~known
        THEN [converted |-> TRUE, key_error |-> TRUE, done |-> FALSE,
              result |-> res_formatted, explanation |-> <<>>, entry |-> <<>>]
        ELSE [converted |-> TRUE, key_error |-> FALSE, done |-> TRUE,
              result |-> res_formatted,
              explanation |-> amount_str \o <<32>> \o u_from_name \o <<32, 61, 32>>  \* " " " = "
                              \o res_formatted \o <<32>> \o u_to_name,  \* " "
              entry |-> <<HistoryEntry(amount_str \o <<32>> \o u_from_name,  \* " "
                                       res_formatted \o <<32>> \o u_to_name)>>]  \* " "

\* do_POST, lines 239-253, for the value convert returned.
post_converted(category, amount_str, unit_from, unit_to, res) ==
    IF res.found
    THEN post_explain(category, amount_str, unit_from, unit_to, FormatResult(res.val))
    ELSE NotConverted

\* do_POST, lines 236-260, for the outcome of float(amount_str).
post_parsed(category, amount_str, unit_from, unit_to, parsed) ==
    IF parsed.ok
    THEN post_converted(category, amount_str, unit_from, unit_to,
                        convert(category, parsed.val, unit_from, unit_to))
    ELSE NotConverted

\* do_POST, lines 234-260: what the convert branch works out before it touches the
\* history.  converted: convert returned a number; key_error: the lookup of a unit
\* name raises KeyError; done: the entry for the history is built.
post_conversion(action, category, amount_str, unit_from, unit_to) ==
    IF action = A_convert
    THEN post_parsed(category, amount_str, unit_from, unit_to, ParseFloat(amount_str))
    ELSE NotConverted

\* The context of do_POST as _send_response gets it (history: the list as it is then).
post_context(history, action, category, amount_str, unit_from, unit_to, conv) ==
    LET swapped == action = A_swap
        u_from  == IF swapped THEN unit_to ELSE unit_from
        u_to    == IF swapped THEN unit_from ELSE unit_to
    IN  <<[key |-> K_current_cat, val |-> PStr(category)],
          [key |-> K_amount,      val |-> PStr(amount_str)],
          [key |-> K_history,     val |-> PList(history)],
          [key |-> K_result,      val |-> PStr(conv.result)],
          [key |-> K_explanation, val |-> PStr(conv.explanation)],
          [key |-> K_unit_from_options, val |-> PStr(get_options_html(category, u_from))],
          [key |-> K_unit_to_options,   val |-> PStr(get_options_html(category, u_to))]>>

\* do_POST, lines 249-266, for the outcome of the convert branch: the entry is
\* appended and the list capped, then the page is sent; a KeyError has left the
\* handler before either.
post_respond(history, file, action, category, amount_str, unit_from, unit_to, conv) ==
    LET history2 == IF conv.done THEN AppendCapped(history, conv.entry[1]) ELSE history
        ctx      == post_context(history2, action, category, amount_str, unit_from, unit_to, conv)
    IN  IF conv.key_error
        THEN [history |-> history, appended |-> <<>>,
              context |-> SubSeq(ctx, 1, 5), response |-> Raised]
        ELSE [history |-> history2, appended |-> conv.entry,
              context |-> ctx, response |-> send_response(file, ctx)]

\* RequestHandler.do_POST, for the fields of the form (defaults applied).
do_POST(history, file, action, category, amount_str, unit_from, unit_to) ==
    post_respond(history, file, action, category, amount_str, unit_from, unit_to,
                 post_conversion(action, category, amount_str, unit_from, unit_to))

----------------------------------------------------------------------------
(* The server handling one request after the other (HTTPServer).           *)

\* The page template: index_dynamic.html is not among the sources; this one uses
\* every construct of the engine and the keys the handlers put in the context.
IndexTemplate ==
    Marker(K_current_cat) \o <<58>> \o Marker(K_amount)  \* ":"
    \o IfOpen \o K_result \o TagClose
        \o <<61>> \o Marker(K_result) \o <<40>> \o Marker(K_explanation) \o <<41>>  \* "=" "(" ")"
    \o EndIfTag \o <<124>>  \* "|"
    \o ForOpen \o K_history \o TagClose
        \o <<91>> \o ItemMarker(K_from_val) \o <<61>> \o ItemMarker(K_to_val) \o <<93>>  \* "[" "=" "]"
    \o ElseTag \o <<110,111,110,101>> \o EndForTag  \* "none"

\* The template file of the page is in place, or was never installed.
ServerFiles == {FileWith(IndexTemplate), FileMissing}

\* The form fields the requests are drawn from.
ReqCategories == {Length, Temperature, <<98,111,103,117,115>>}  \* "bogus"
ReqAmounts    == {<<49,48,48>>, <<97,98,99>>}  \* "100" "abc"
ReqUnitsFrom  == {<<107,109>>, <<102>>, <<122,122>>}  \* "km" "f" "zz"
ReqUnitsTo    == {<<109>>, <<99>>, <<>>}  \* "m" "c"
ReqActions    == {A_convert, A_swap}

GetRequests ==
    {[method |-> "GET", action |-> <<>>, category |-> c, amount |-> <<>>,
      unit_from |-> <<>>, unit_to |-> <<>>] : c \in ReqCategories}

PostRequests ==
    {[method |-> "POST", action |-> a, category |-> c, amount |-> n,
      unit_from |-> uf, unit_to |-> ut] :
        a \in ReqActions, c \in ReqCategories, n \in ReqAmounts,
        uf \in ReqUnitsFrom, ut \in ReqUnitsTo}

\* The number of entries the history log of a run may reach.
MaxConversions == 6

NoRequest == [method |-> "none", action |-> <<>>, category |-> <<>>, amount |-> <<>>,
              unit_from |-> <<>>, unit_to |-> <<>>]

Pending == [status |-> "pending", html |-> <<>>, loops |-> <<>>, ifs |-> <<>>]

\* The handler run for a request, from the history and the template file it finds.
handle(history, file, req) ==
    IF req.method = "GET" THEN do_GET(history, file, req.category)
    ELSE do_POST(history, file, req.action, req.category, req.amount,
                 req.unit_from, req.unit_to)

Init ==
    /\ request_history = <<>>
    /\ produced = <<>>
    /\ template_file \in ServerFiles
    /\ context = <<>>
    /\ response = NoResponse
    /\ request = NoRequest
    /\ threads = <<>>

\* serve_forever accepts the next request once the handler of the last one is over.
Receive ==
    /\ response.status # "pending"
    /\ Len(produced) < MaxConversions
    /\ request' \in GetRequests \cup PostRequests
    /\ context' = <<>>
    /\ response' = Pending
    /\ UNCHANGED <<request_history, produced, template_file, threads>>

Handled(out) ==
    /\ request_history' = out.history
    /\ produced' = produced \o out.appended
    /\ context' = out.context
    /\ response' = out.response
    /\ UNCHANGED <<template_file, request, threads>>

Get ==
    /\ response.status = "pending"
    /\ request.method = "GET"
    /\ \E out \in {handle(request_history, template_file, request)} : Handled(out)

Post ==
    /\ response.status = "pending"
    /\ request.method = "POST"
    /\ \E out \in {handle(request_history, template_file, request)} : Handled(out)

Next == Receive \/ Get \/ Post

Spec == Init /\ [][Next]_vars

----------------------------------------------------------------------------
(* TemplateEngine.render on its own: a template file and a context are     *)
(* given, render is called once (SpecRender).                              *)

K_h      == <<104>>  \* "h"
K_flag   == <<102,108,97,103>>  \* "flag"
K_x      == <<120>>  \* "x"
K_absent == <<97>>  \* "a"

LoopBlock(name, body, else_body) ==
    ForOpen \o name \o TagClose \o body \o ElseTag \o else_body \o EndForTag

NoElseBlock(name, body) == ForOpen \o name \o TagClose \o body \o EndForTag

IfBlock(name, body) == IfOpen \o name \o TagClose \o body \o EndIfTag

\* The loop bodies: text, one item-field marker, text.
LoopBodies ==
    {[pre |-> <<91>>, field |-> K_x, post |-> <<93>>],  \* "[" "]"
     [pre |-> <<>>,    field |-> K_x, post |-> <<44>>]}  \* ","

BodyText(b) == b.pre \o ItemMarker(b.field) \o b.post

ElseBodies == {<<110,111,110,101>>, Marker(K_flag)}  \* "none"

IfBodies == {<<115,104,111,119,110>>, Marker(K_flag)}  \* "shown"

\* The pieces the templates are written from.
RenderFragments ==
    {LoopBlock(K_h, BodyText(b), e) : b \in LoopBodies, e \in ElseBodies}
    \cup {LoopBlock(K_flag, <<105>>, <<101>>)}  \* "i" "e"
    \cup {NoElseBlock(K_h, BodyText(b)) : b \in LoopBodies}
    \cup {IfBlock(K_flag, <<115,104,111,119,110>>), IfBlock(K_h, Marker(K_flag))}  \* "shown"
    \cup {<<114,101,115,116>>, Marker(K_flag), Marker(K_h), Marker(K_absent)}  \* "rest"

\* The number of pieces of a template.
MaxFragments == 2

RenderTemplates ==
    UNION {{Concat(fs) : fs \in [1..n -> RenderFragments]} : n \in 1..MaxFragments}

Item(field, v) == <<[key |-> field, val |-> v]>>

\* The values of the key h: absent, an empty list, a list of two items, a list
\* whose item holds a list.
HValues ==
    {<<>>, <<PList(<<>>)>>, <<PList(<<Item(K_x, PInt(1)), Item(K_x, PInt(2))>>)>>,
     <<PList(<<Item(K_x, PList(<<Item(K_x, PStr(<<115>>))>>))>>)>>}  \* "s"

\* 0.25 and 1e16
Quarter == Fin(FALSE, <<1>>, 0 - 2)
TenTo16 == Fin(FALSE, <<28609, 3556, 142>>, 16)

\* The values of the key flag: absent, or a value of each type, falsy and truthy.
FlagValues ==
    {<<>>, <<PBool(TRUE)>>, <<PBool(FALSE)>>, <<PStr(<<>>)>>, <<PStr(<<97,98>>)>>,  \* "ab"
     <<PStr(Marker(K_absent))>>, <<PInt(0)>>, <<PInt(2)>>, <<PFloat(Zero(FALSE))>>,
     <<PFloat(Quarter)>>, <<PFloat(TenTo16)>>,
     <<PList(<<>>)>>, <<PList(<<Item(K_x, PStr(<<115>>))>>)>>}  \* "s"

RenderContexts ==
    {[i \in 1..Len(hv) |-> [key |-> K_h, val |-> hv[i]]]
     \o [i \in 1..Len(fv) |-> [key |-> K_flag, val |-> fv[i]]] :
        hv \in HValues, fv \in FlagValues}

RenderFiles == {FileMissing, FileUnreadable} \cup {FileWith(t) : t \in RenderTemplates}

InitRender ==
    /\ request_history = <<>>
    /\ produced = <<>>
    /\ template_file \in RenderFiles
    /\ context \in RenderContexts
    /\ response = NoResponse
    /\ request = NoRequest
    /\ threads = <<>>

\* engine.render(context)
Render ==
    /\ response.status = "none"
    /\ response' = render(template_file, context)
    /\ UNCHANGED <<request_history, produced, template_file, context, request, threads>>

NextRender == Render

SpecRender == InitRender /\ [][NextRender]_vars

----------------------------------------------------------------------------
(* One form posted to the server, whatever its amount text (SpecAmount).    *)

\* Amount texts float() raises ValueError for.
BadAmounts ==
    {
     <<97,98,99>>, <<49,101>>, <<49,95,95,48>>, <<95,49>>, <<49,95>>,  \* "abc" "1e" "1__0" "_1" "1_"
     <<46>>, <<101,53>>, <<49,101,43>>, <<49,50,120>>, <<48,120,49,48>>,  \* "." "e5" "1e+" "12x" "0x10"
     <<49,32,50>>, <<45,45,49>>, <<1633,120>>, <<105,110>>,  \* "1 2" "--1" "\u0661x" "in"
     <<105,110,102,105,110,105,116>>, <<49,44,53>>, <<32>>,  \* "infinit" "1,5" " "
     <<49,46,50,46,51>>, <<49,101,53,46,48>>, <<28,49,50>>,  \* "1.2.3" "1e5.0" "\x1c12"
     <<110,97,110,101>>}  \* "nane"

\* Amount texts float() reads.
GoodAmounts ==
    {
     <<49,48,48>>, <<49,101,53>>, <<49,69,50>>, <<105,110,102>>,  \* "100" "1e5" "1E2" "inf"
     <<45,105,110,102>>, <<110,97,110>>, <<73,110,102,105,110,105,116,121>>,  \* "-inf" "nan" "Infinity"
     <<49,95,48,48,48>>, <<9,49,50>>, <<49,50,10>>, <<1635>>,  \* "1_000" "\t12" "12\n" "\u0663"
     <<65297,65298>>, <<48,46,48,48,48,48,53>>, <<48,46,48,48,53>>,  \* "\uff11\uff12" "0.00005" "0.005"
     <<48,46,48,48,48,49,53>>, <<50,46,51,52,53,54,53>>, <<45,48>>,  \* "0.00015" "2.34565" "-0"
     <<46,53>>, <<53,46>>, <<43,49,46,53,101,45,51>>,  \* ".5" "5." "+1.5e-3"
     <<49,101,52,48,48>>, <<49,101,45,52,48,48>>, <<160,55,32>>,  \* "1e400" "1e-400" "\xa07 "
     <<45,78,97,78>>}  \* "-NaN"

\* The categories and unit codes the form is posted with.
AmountUnits ==
    {<<Length, <<107,109>>, <<109>>>>, <<Length, <<109>>, <<109>>>>,  \* "km" "m" "m" "m"
     <<Length, <<99,109>>, <<109>>>>, <<Length, <<109>>, <<122,122>>>>,  \* "cm" "m" "m" "zz"
     <<Temperature, <<102>>, <<99>>>>, <<Temperature, <<107>>, <<102>>>>,  \* "f" "c" "k" "f"
     <<Temperature, <<122,122>>, <<99>>>>}  \* "zz" "c"

AmountRequests ==
    {[method |-> "POST", action |-> A_convert, category |-> u[1], amount |-> n,
      unit_from |-> u[2], unit_to |-> u[3]] : n \in BadAmounts \cup GoodAmounts, u \in AmountUnits}

\* Five conversions that succeed.
FiveConversions ==
    [i \in 1..5 |->
        [method |-> "POST", action |-> A_convert,
         category |-> IF i % 2 = 1 THEN Length ELSE Temperature,
         amount |-> <<49,48,48>>,  \* "100"
         unit_from |-> IF i % 2 = 1 THEN <<107,109>> ELSE <<102>>,  \* "km" "f"
         unit_to |-> IF i % 2 = 1 THEN <<109>> ELSE <<99>>]]  \* "m" "c"

RECURSIVE Served(_, _)
\* request_history once the first n of the requests are handled, one after the other
Served(reqs, n) ==
    IF n = 0 THEN <<>>
    ELSE handle(Served(reqs, n - 1), FileWith(IndexTemplate), reqs[n]).history

\* The form arrives at a server that is new, or has served the five conversions.
InitAmount ==
    /\ request_history \in {<<>>, Served(FiveConversions, 5)}
    /\ produced = request_history
    /\ template_file = FileWith(IndexTemplate)
    /\ context = <<>>
    /\ response = NoResponse
    /\ request = NoRequest
    /\ threads = <<>>

ReceiveForm ==
    /\ response.status = "none"
    /\ request' \in AmountRequests
    /\ context' = <<>>
    /\ response' = Pending
    /\ UNCHANGED <<request_history, produced, template_file, threads>>

NextAmount == ReceiveForm \/ Post

SpecAmount == InitAmount /\ [][NextAmount]_vars

----------------------------------------------------------------------------
(* The server with one thread per request (run with a threading            *)
(* server_class): the handlers share request_history and take no lock, so   *)
(* the statements that touch the list interleave: the append, the length    *)
(* test and the pop of do_POST, and in render (whose context holds the list *)
(* itself) each read of it: the test of a loop's list, every step of the    *)
(* iteration over it, the test of a conditional (SpecThreaded).             *)

\* The number of handler threads.
NumThreads == 2

Threads == 1..NumThreads

\* The requests the threads serve: two conversions that succeed, and a page view.
ThreadRequests ==
    {[method |-> "POST", action |-> A_convert, category |-> Length,
      amount |-> <<49,48,48>>, unit_from |-> <<107,109>>, unit_to |-> <<109>>],  \* "100" "km" "m"
     [method |-> "POST", action |-> A_convert, category |-> Temperature,
      amount |-> <<49,48,48>>, unit_from |-> <<102>>, unit_to |-> <<99>>],  \* "100" "f" "c"
     [method |-> "GET", action |-> <<>>, category |-> Length, amount |-> <<>>,
      unit_from |-> <<>>, unit_to |-> <<>>]}

\* A thread between two requests; seen: the number of history entries the loops
\* of its last page walked.
Idle(status, seen) ==
    [pc |-> "idle", request |-> NoRequest, conv |-> NotConverted, status |-> status,
     seen |-> seen, text |-> <<>>, pos |-> 0, out |-> <<>>, idx |-> 0, result_html |-> <<>>]

\* The threads start at a server that has served conversions one after the other,
\* its list one entry short of the cap.
InitThreaded ==
    /\ request_history = Served(FiveConversions, HistoryCap - 1)
    /\ produced = request_history
    /\ template_file = FileWith(IndexTemplate)
    /\ context = <<>>
    /\ response = NoResponse
    /\ request = NoRequest
    /\ threads = [t \in Threads |-> Idle("none", 0)]

\* The handler of a request with the outcome conv of its convert branch, before
\* it touches the list.
Started(req, conv) ==
    IF conv.key_error THEN Idle("raised", 0)
    ELSE [Idle("pending", 0) EXCEPT !.pc = IF conv.done THEN "append" ELSE "render",
                                    !.request = req, !.conv = conv]

\* The local part of a handler: do_GET up to its render, do_POST up to the append
\* (form parsing, convert, formatting, the names of the units).
T_Receive(t) ==
    /\ threads[t].pc = "idle"
    /\ Len(produced) < MaxConversions
    /\ \E req \in ThreadRequests :
         \E conv \in {IF req.method = "POST"
                      THEN post_conversion(req.action, req.category, req.amount,
                                           req.unit_from, req.unit_to)
                      ELSE NotConverted} :
             threads' = [threads EXCEPT ![t] = Started(req, conv)]
    /\ UNCHANGED <<request_history, produced, template_file, context, response, request>>

\* request_history.append({...})
T_Append(t) ==
    /\ threads[t].pc = "append"
    /\ request_history' = Append(request_history, threads[t].conv.entry[1])
    /\ produced' = Append(produced, threads[t].conv.entry[1])
    /\ threads' = [threads EXCEPT ![t].pc = "check"]
    /\ UNCHANGED <<template_file, context, response, request>>

\* if len(request_history) > 5:
T_CheckLen(t) ==
    /\ threads[t].pc = "check"
    /\ threads' = [threads EXCEPT ![t].pc =
                      IF Len(request_history) > HistoryCap THEN "pop" ELSE "render"]
    /\ UNCHANGED <<request_history, produced, template_file, context, response, request>>

\* request_history.pop(0)
T_Pop(t) ==
    /\ threads[t].pc = "pop"
    /\ request_history # <<>>
    /\ request_history' = Tail(request_history)
    /\ threads' = [threads EXCEPT ![t].pc = "render"]
    /\ UNCHANGED <<produced, template_file, context, response, request>>

\* The context of the handler of req: its 'history' is the shared list, here as
\* the list is now.
thread_context(history, req, conv) ==
    IF req.method = "GET" THEN get_context(history, req.category)
    ELSE post_context(history, req.action, req.category, req.amount,
                      req.unit_from, req.unit_to, conv)

\* The handler of thread th ends with the response r.
Answered(th, r) == Idle(r.status, th.seen)

\* The thread th goes on.
Continues(t, th) ==
    /\ threads' = [threads EXCEPT ![t] = th]
    /\ UNCHANGED response

\* The thread th is over, its response r.
Ends(t, th, r) ==
    /\ threads' = [threads EXCEPT ![t] = Answered(th, r)]
    /\ response' = r

\* _send_response and render up to the sub of the loops: the template is looked
\* for and read.
T_Render(t) ==
    /\ threads[t].pc = "render"
    /\ IF template_file.state = "missing"
       THEN Ends(t, threads[t], write_page(render(template_file, <<>>)))
       ELSE IF template_file.state = "unreadable"
       THEN Ends(t, threads[t], Raised)
       ELSE Continues(t, [threads[t] EXCEPT !.pc = "loops", !.text = template_file.text,
                                            !.pos = 1, !.out = <<>>])
    /\ UNCHANGED <<request_history, produced, template_file, context, request>>

\* loop_pattern.sub goes to the match at i, and loop_replacer tests its list:
\* items = context.get(list_name, []); if not items: return else_body
loop_entered(th, ctx, i, m) ==
    IF ~Truthy(DictGet(ctx, m.g1, PList(<<>>)))
    THEN [th EXCEPT !.out = th.out \o SubSeq(th.text, th.pos, i - 1) \o m.g3,
                    !.pos = m.last + 1]
    ELSE [th EXCEPT !.pc = "item", !.out = th.out \o SubSeq(th.text, th.pos, i - 1),
                    !.pos = i, !.idx = 0, !.result_html = <<>>]

\* The sub of the loops goes on from th.pos: to the next match, or, with no match
\* left, to the end of the text, and render goes over to the conditionals.
T_Loops(t) ==
    /\ threads[t].pc = "loops"
    /\ \E th \in {threads[t]} :
       \E ctx \in {thread_context(request_history, th.request, th.conv)} :
       \E i \in {NextLoopMatch(th.text, th.pos)} :
          IF i = 0
          THEN Continues(t, [th EXCEPT !.pc = "ifs", !.text = th.out \o Rest(th.text, th.pos),
                                       !.pos = 1, !.out = <<>>])
          ELSE IF loop_raises(ctx, LoopMatchAt(th.text, i))
          THEN Ends(t, th, Raised)
          ELSE Continues(t, loop_entered(th, ctx, i, LoopMatchAt(th.text, i)))
    /\ UNCHANGED <<request_history, produced, template_file, context, request>>

\* One step of `for item in items` over the list as it is now: the item at the
\* iterator's index is rendered and put before the others, or, the index at the
\* end of the list, the loop is over and loop_replacer returns result_html.
loop_item(th, items, m) ==
    IF th.idx < Len(items)
    THEN [th EXCEPT !.result_html = SubstItem(m.g2, items[th.idx + 1], 1) \o th.result_html,
                    !.idx = th.idx + 1, !.seen = th.seen + 1]
    ELSE [th EXCEPT !.pc = "loops", !.out = th.out \o th.result_html, !.pos = m.last + 1,
                    !.idx = 0, !.result_html = <<>>]

T_LoopItem(t) ==
    /\ threads[t].pc = "item"
    /\ \E th \in {threads[t]} :
       \E ctx \in {thread_context(request_history, th.request, th.conv)} :
       \E m \in {LoopMatchAt(th.text, th.pos)} :
          Continues(t, loop_item(th, DictGet(ctx, m.g1, PList(<<>>)).items, m))
    /\ UNCHANGED <<request_history, produced, template_file, context, request>>

\* The page render returns for the text the conditionals left, as it is sent.
page_sent(th, ctx, ifs) == write_page(render_scalars(ctx, th.text, ifs))

\* if_pattern.sub goes on from th.pos: to the next match, whose key if_replacer
\* tests, or, with no match left, to the end of the text; then the scalar markers
\* are replaced and the page is sent.
T_Ifs(t) ==
    /\ threads[t].pc = "ifs"
    /\ \E th \in {threads[t]} :
       \E ctx \in {thread_context(request_history, th.request, th.conv)} :
       \E i \in {NextIfMatch(th.text, th.pos)} :
          IF i = 0
          THEN Ends(t, th, page_sent(th, ctx, th.out \o Rest(th.text, th.pos)))
          ELSE Continues(t, [th EXCEPT
                   !.out = th.out \o SubSeq(th.text, th.pos, i - 1)
                           \o if_replacer(ctx, IfMatchAt(th.text, i)),
                   !.pos = IfMatchAt(th.text, i).last + 1])
    /\ UNCHANGED <<request_history, produced, template_file, context, request>>

NextThreaded ==
    \E t \in Threads :
        \/ T_Receive(t)
        \/ T_Append(t)
        \/ T_CheckLen(t)
        \/ T_Pop(t)
        \/ T_Render(t)
        \/ T_Loops(t)
        \/ T_LoopItem(t)
        \/ T_Ifs(t)

SpecThreaded == InitThreaded /\ [][NextThreaded]_vars

----------------------------------------------------------------------------
(* Properties of the history and of the request handlers (Spec).           *)

\* The last n elements of s
LastN(s, n) == SubSeq(s, Len(s) - n + 1, Len(s))

\* The handler of the pending request runs in this step.
HandlerStep == response.status = "pending" /\ response'.status # "pending"

\* The category is unknown, or one of the unit codes is not a unit of the category.
UnknownCombination(req) ==
    \/ ~KnownCategory(req.category)
    \/ ~KnownUnit(UnitsOf(req.category), req.unit_from)
    \/ ~KnownUnit(UnitsOf(req.category), req.unit_to)

\* s[a..b] is digits, with single underscores between them.
DigitGroup(s, a, b) ==
    /\ a <= b
    /\ IsDigitChar(s[a]) /\ IsDigitChar(s[b])
    /\ \A i \in a..b : IsDigitChar(s[i]) \/ (s[i] = 95 /\ IsDigitChar(s[i + 1]))  \* "_"

\* s[a..b] is digits with at most one point, a digit at least on one side of it.
Mantissa(s, a, b) ==
    \/ DigitGroup(s, a, b)
    \/ \E d \in a..b :
          /\ s[d] = 46  \* "."
          /\ a < b
          /\ d = a \/ DigitGroup(s, a, d - 1)
          /\ d = b \/ DigitGroup(s, d + 1, b)

\* s[a..b] is e or E, an optional sign, digits.
Exponent(s, a, b) ==
    /\ a < b
    /\ s[a] \in {101, 69}  \* "eE"
    /\ \/ DigitGroup(s, a + 1, b)
       \/ s[a + 1] \in {43, 45} /\ DigitGroup(s, a + 2, b)  \* "+-"

\* s is a decimal number, with or without an exponent.
DecimalNumber(s) ==
    /\ s # <<>>
    /\ \/ Mantissa(s, 1, Len(s))
       \/ \E k \in 2..Len(s) : Mantissa(s, 1, k - 1) /\ Exponent(s, k, Len(s))

Unsigned(s) == IF s # <<>> /\ s[1] \in {43, 45} THEN Tail(s) ELSE s  \* "+-"

\* The positions of the digits of the decimal number s before its exponent
MantissaDigits(s) ==
    {i \in 1..Len(s) : IsDigitChar(s[i]) /\ \A j \in 1..i : s[j] \notin {101, 69}}  \* "eE"

\* Those from the first digit that is not 0 on
SignificantDigits(s) ==
    {i \in MantissaDigits(s) : \E j \in MantissaDigits(s) : j <= i /\ DigitVal(s[j]) # 0}

\* Those after the point
FractionDigits(s) == {i \in MantissaDigits(s) : \E j \in 1..i : s[j] = 46}  \* "."

\* The decimal number s is within the number of digits float() reads.
WithinDigitLimits(s) ==
    /\ Cardinality(SignificantDigits(s)) <= MaxDigits
    /\ Cardinality(FractionDigits(s)) <= MaxDigits

\* The text, the white space around it apart, writes a real number that float()
\* reads: a sign or none, then a decimal number of no more digits than float()
\* takes. The words inf, infinity and nan, which float() reads too, write no
\* real number.
IsNumber(text) ==
    /\ DecimalNumber(Unsigned(Strip(text)))
    /\ WithinDigitLimits(Unsigned(Strip(text)))

\* The amount text is no valid number.
NotANumber(text) == ~IsNumber(text)

\* C1: after any sequence of GET, swap and convert requests the history holds at
\* most 5 entries, and they are, in insertion order, the last min(n, 5) entries
\* that the n successful conversions so far produced.
C1_HistoryIsLastFive ==
    /\ Len(request_history) <= 5
    /\ request_history = LastN(produced, IF Len(produced) < 5 THEN Len(produced) ELSE 5)

\* C1 witness: a 6th conversion has succeeded; the first entry is gone, the other
\* five remain in order, and the run mixes the two kinds of entry.
C1_SixthEvictsOldest ==
    /\ Len(produced) = 6
    /\ request_history = SubSeq(produced, 2, 6)
    /\ produced[1] # produced[2]
    /\ response.status = "sent"

\* C2: a convert request whose category is unknown, or one of whose unit codes is
\* not in the category's units (temperature included), gets NotFound from convert
\* and leaves the history unchanged.
C2_UnknownCombinationIsNotFound ==
    [][(/\ HandlerStep
        /\ request.method = "POST"
        /\ request.action = A_convert
        /\ ParseFloat(request.amount).ok
        /\ UnknownCombination(request))
       => (/\ ~convert(request.category, ParseFloat(request.amount).val,
                       request.unit_from, request.unit_to).found
           /\ UNCHANGED request_history)]_vars

\* C3: every POST request ends by sending a rendered response; nothing raised
\* inside the handler leaves it.
C3_EveryPostSendsResponse ==
    (request.method = "POST" /\ response.status # "pending") => response.status = "sent"

\* C4: a convert request whose amount is no valid number (no text that writes a
\* real number) is rejected without failing the request: nothing is converted,
\* result and explanation stay empty, the history is unchanged and a response is
\* rendered. It fails for the amounts nan, inf and infinity, which float() reads
\* and do_POST converts and logs.
C4_BadAmountRejected ==
    [][(/\ HandlerStep
        /\ request.method = "POST"
        /\ request.action = A_convert
        /\ NotANumber(request.amount))
       => (/\ response'.status = "sent"
           /\ DictGet(context', K_result, PNone) = PStr(<<>>)
           /\ DictGet(context', K_explanation, PNone) = PStr(<<>>)
           /\ UNCHANGED <<request_history, produced>>)]_vars

\* C5: with handlers dispatched concurrently, the append of an entry and the
\* eviction of the oldest act as one step: no handler that reads the history sees
\* more than 5 entries, and once the conversions are over the history holds
\* exactly the most recent 5 (or all of them, if fewer).
C5_AppendAndEvictAtomic ==
    /\ \A t \in Threads : threads[t].seen <= 5
    /\ (\A t \in Threads : threads[t].pc = "idle")
           => request_history = LastN(produced, IF Len(produced) < 5 THEN Len(produced) ELSE 5)

----------------------------------------------------------------------------
(* Properties of TemplateEngine.render (SpecRender).                       *)

Rendered == response.status = "returned" /\ template_file.state = "readable"

RECURSIVE ReversedItems(_, _, _)
\* The body once per item, the item's field in place of its marker, last item first.
ReversedItems(b, items, n) ==
    IF n = 0 THEN <<>>
    ELSE b.pre \o PyStr(DictGet(items[n], b.field, PNone)) \o b.post
         \o ReversedItems(b, items, n - 1)

\* C6: a loop block {% for item in h %}B{% else %}E{% endfor %} (the first loop of
\* its template) renders as E when h is empty or absent, and otherwise as B once
\* per item, each item's markers substituted, in the reverse of the stored order;
\* the text before it is kept, and so is the text after it when no loop follows.
C6_LoopBlockRendering ==
    Rendered =>
        \A b \in LoopBodies, e \in ElseBodies, i \in 1..Len(template_file.text) :
            LET text     == template_file.text
                block    == LoopBlock(K_h, BodyText(b), e)
                before   == SubSeq(text, 1, i - 1)
                after    == Rest(text, i + Len(block))
                h        == DictGet(context, K_h, PNone)
                expected == IF h.type = "none" \/ h.items = <<>> THEN e
                            ELSE ReversedItems(b, h.items, Len(h.items))
            IN  (StartsWithAt(text, i, block) /\ Find(text, ForOpen, 1) = i)
                => /\ StartsWithAt(response.loops, 1, before \o expected)
                   /\ (Find(after, ForOpen, 1) = 0
                        => response.loops = before \o expected \o after)

\* C6 witness: h = [{x:1},{x:2}] and the body [{{ item.x }}] give [2][1].
C6_TwoItemsReversed ==
    /\ Rendered
    /\ template_file.text = LoopBlock(K_h, <<91>> \o ItemMarker(K_x) \o <<93>>, <<110,111,110,101>>)  \* "[" "]" "none"
    /\ Len(DictGet(context, K_h, PNone).items) = 2
    /\ response.loops = <<91,50,93,91,49,93>>  \* "[2][1]"
    /\ response.html = <<91,50,93,91,49,93>>  \* "[2][1]"

RenderKeys == {K_h, K_flag, K_absent}

\* C7 as stated: only keys holding a string, an integer or a float have their
\* marker replaced; the markers of a key holding a boolean or a sequence, or of an
\* absent key, remain in the output.
C7_BooleanMarkersRemain ==
    Rendered =>
        \A key \in RenderKeys :
            DictGet(context, key, PNone).type \in {"bool", "list", "none"}
            => CountOcc(response.html, Marker(key)) >= CountOcc(response.ifs, Marker(key))

\* C7 amended: a key holding a string, an integer, a float or a boolean has its
\* markers replaced by str(value); the markers of a key holding a sequence, or of an
\* absent key, remain in the output.
C7_ScalarsAndBooleansReplaced ==
    Rendered =>
        \A key \in RenderKeys :
            LET v == DictGet(context, key, PNone)
            IN  /\ v.type \in {"list", "none"}
                    => CountOcc(response.html, Marker(key)) >= CountOcc(response.ifs, Marker(key))
                /\ v.type \in {"str", "int", "float", "bool"}
                    => /\ ~Contains(response.html, Marker(key))
                       /\ Contains(response.ifs, Marker(key)) => Contains(response.html, PyStr(v))

\* C7 witness: flag is True and its marker, present after the conditionals, is
\* replaced by True.
C7_BooleanReplaced ==
    /\ Rendered
    /\ DictGet(context, K_flag, PNone) = PBool(TRUE)
    /\ Contains(response.ifs, Marker(K_flag))
    /\ ~Contains(response.html, Marker(K_flag))
    /\ Contains(response.html, <<84,114,117,101>>)  \* "True"

\* C8: when the template file is missing, or is there but cannot be read, render
\* returns the fixed error fragment and does not raise.
C8_NoTemplateGivesErrorFragment ==
    (response.status # "none" /\ template_file.state \in {"missing", "unreadable"})
    => (response.status = "returned" /\ response.html = TemplateNotFound)

\* Truthy as the claim spells it: a non-empty string, a non-zero number, the
\* boolean true, a non-empty sequence.
SpelledTruthy(v) ==
    \/ v.type = "str" /\ v.str # <<>>
    \/ v.type = "int" /\ v.num # 0
    \/ v.type = "float" /\ ~IsZero(v.float)
    \/ v.type = "bool" /\ v.num = 1
    \/ v.type = "list" /\ v.items # <<>>

\* C9: a conditional block {% if k %}B{% endif %} (the first conditional of the
\* text the loop stage left) renders as B when k is truthy and as the empty string
\* when k is false, zero, empty or absent; the text before the block is kept, and
\* so is the text after it when no conditional follows.
C9_ConditionalRendering ==
    Rendered =>
        \A name \in {K_flag, K_h}, body \in IfBodies, i \in 1..Len(response.loops) :
            LET text     == response.loops
                block    == IfBlock(name, body)
                before   == SubSeq(text, 1, i - 1)
                after    == Rest(text, i + Len(block))
                expected == IF SpelledTruthy(DictGet(context, name, PNone)) THEN body ELSE <<>>
            IN  (StartsWithAt(text, i, block) /\ Find(text, IfOpen, 1) = i)
                => /\ StartsWithAt(response.ifs, 1, before \o expected)
                   /\ (Find(after, IfOpen, 1) = 0
                        => response.ifs = before \o expected \o after)

\* C9 witness: {% if flag %}shown{% endif %}rest with a truthy flag gives shownrest.
C9_ShownRest ==
    /\ Rendered
    /\ template_file.text = IfBlock(K_flag, <<115,104,111,119,110>>) \o <<114,101,115,116>>  \* "shown" "rest"
    /\ DictGet(context, K_flag, PNone) = PInt(2)
    /\ response.html = <<115,104,111,119,110,114,101,115,116>>  \* "shownrest"

\* C10: a loop block with no else-marker between its loop-open and its loop-close
\* is not matched by the loop stage: its text is in the output of the stage as it
\* is in the template, whatever other loop blocks stand before or after it.
C10_LoopWithoutElseUntouched ==
    Rendered =>
        \A b \in LoopBodies :
            Contains(template_file.text, NoElseBlock(K_h, BodyText(b)))
            => Contains(response.loops, NoElseBlock(K_h, BodyText(b)))

====
